---- MODULE Spec2Model ----
(***************************************************************************)
(* Model of the command-and-document interpretation core of ChatDB         *)
(* (gemini.ts, kept as src/unnamed/part_005): processNaturalLanguageCommand,*)
(* inferColumnType and extractDataFromFile.                                *)
(*                                                                         *)
(* Strings of the program are sequences of one-character strings, so that  *)
(* toLowerCase, trim, includes, split and the regular expressions of the   *)
(* source are computed character by character, as the JavaScript does.     *)
(***************************************************************************)
EXTENDS Integers, Sequences, FiniteSets, TLC

(***************************************************************************)
(* Characters                                                              *)
(***************************************************************************)
LowerLetters ==
  {"a","b","c","d","e","f","g","h","i","j","k","l","m",
   "n","o","p","q","r","s","t","u","v","w","x","y","z"}

UpperToLower ==
  [c \in {"A","B","C","D","E","F","G","H","I","J","K","L","M",
          "N","O","P","Q","R","S","T","U","V","W","X","Y","Z"} |->
     CASE c = "A" -> "a" [] c = "B" -> "b" [] c = "C" -> "c" [] c = "D" -> "d"
       [] c = "E" -> "e" [] c = "F" -> "f" [] c = "G" -> "g" [] c = "H" -> "h"
       [] c = "I" -> "i" [] c = "J" -> "j" [] c = "K" -> "k" [] c = "L" -> "l"
       [] c = "M" -> "m" [] c = "N" -> "n" [] c = "O" -> "o" [] c = "P" -> "p"
       [] c = "Q" -> "q" [] c = "R" -> "r" [] c = "S" -> "s" [] c = "T" -> "t"
       [] c = "U" -> "u" [] c = "V" -> "v" [] c = "W" -> "w" [] c = "X" -> "x"
       [] c = "Y" -> "y" [] c = "Z" -> "z"]

Digits == {"0","1","2","3","4","5","6","7","8","9"}

\* \s of a JavaScript regular expression, and the characters trim() removes
SpaceChars == {" ", "\t", "\n", "\r"}

\* \w of a JavaScript regular expression
WordChars == LowerLetters \cup DOMAIN UpperToLower \cup Digits \cup {"_"}

\* String.prototype.toLowerCase, one character
LowerChar(c) == IF c \in DOMAIN UpperToLower THEN UpperToLower[c] ELSE c

\* String.prototype.toLowerCase
toLowerCase(s) == [i \in 1..Len(s) |-> LowerChar(s[i])]

RECURSIVE TrimStart(_)
TrimStart(s) ==
  IF Len(s) > 0 /\ s[1] \in SpaceChars THEN TrimStart(Tail(s)) ELSE s

RECURSIVE TrimEnd(_)
TrimEnd(s) ==
  IF Len(s) > 0 /\ s[Len(s)] \in SpaceChars
    THEN TrimEnd(SubSeq(s, 1, Len(s) - 1)) ELSE s

\* String.prototype.trim
trim(s) == TrimEnd(TrimStart(s))

\* String.prototype.includes
includes(s, sub) ==
  \E i \in 1..(Len(s) - Len(sub) + 1) : SubSeq(s, i, i + Len(sub) - 1) = sub

\* String.prototype.split on a one-character separator
RECURSIVE SplitFrom(_, _, _, _)
SplitFrom(s, sep, i, cur) ==
  IF i > Len(s) THEN <<cur>>
  ELSE IF s[i] = sep THEN <<cur>> \o SplitFrom(s, sep, i + 1, <<>>)
  ELSE SplitFrom(s, sep, i + 1, Append(cur, s[i]))

split(s, sep) == SplitFrom(s, sep, 1, <<>>)

(***************************************************************************)
(* Regular expressions: a backtracking matcher with the priorities of the  *)
(* JavaScript engine (leftmost start, alternatives in order, greedy        *)
(* quantifiers longest first, lazy quantifiers shortest first).  All the   *)
(* patterns of the source carry the i flag, so Lit compares lower-cased;   *)
(* Exact compares as written.  A pattern is a sequence of nodes.           *)
(***************************************************************************)
Lit(cs)            == [t |-> "lit", cs |-> cs]
Exact(cs)          == [t |-> "exact", cs |-> cs]
One(cls)           == [t |-> "one", cls |-> cls]
Rep(cls, min, grd) == [t |-> "rep", cls |-> cls, min |-> min, greedy |-> grd]
Opt(sub)           == [t |-> "opt", sub |-> sub]
Alt(subs)          == [t |-> "alt", subs |-> subs]
Cap(n, sub)        == [t |-> "cap", n |-> n, sub |-> sub]
Bol                == [t |-> "bol"]
Eol                == [t |-> "eol"]
CapOpen(n)         == [t |-> "capopen", n |-> n]
CapClose(n)        == [t |-> "capclose", n |-> n]

\* \s+  \s*  \w+  .+  .+?  .*?  [\s!.,?]*  [\s?!]*
Sp1      == Rep("space", 1, TRUE)
Sp0      == Rep("space", 0, TRUE)
Word1    == Rep("word", 1, TRUE)
Dot1     == Rep("dot", 1, TRUE)
Dot1Lazy == Rep("dot", 1, FALSE)
Dot0Lazy == Rep("dot", 0, FALSE)
Trail5   == Rep("trail5", 0, TRUE)
Trail3   == Rep("trail3", 0, TRUE)

InClass(c, cls) ==
  CASE cls = "space"  -> c \in SpaceChars
    [] cls = "word"   -> c \in WordChars
    [] cls = "dot"    -> c \notin {"\n", "\r"}
    [] cls = "trail5" -> c \in SpaceChars \cup {"!", ".", ",", "?"}
    [] cls = "trail3" -> c \in SpaceChars \cup {"?", "!"}
    [] cls = "any"    -> TRUE
    [] cls = "digit"  -> c \in Digits
    [] cls = "nonzero" -> c \in Digits \ {"0"}
    [] cls = "hex"    -> c \in Digits \cup {"a","b","c","d","e","f",
                                            "A","B","C","D","E","F"}
    [] cls = "bin"    -> c \in {"0", "1"}
    [] cls = "oct"    -> c \in {"0","1","2","3","4","5","6","7"}
    [] cls = "sign"   -> c \in {"+", "-"}

\* number of consecutive characters of the class from position i
RECURSIVE Run(_, _, _)
Run(s, i, cls) ==
  IF i <= Len(s) /\ InClass(s[i], cls) THEN 1 + Run(s, i + 1, cls) ELSE 0

LitAt(s, i, cs) ==
  /\ i + Len(cs) - 1 <= Len(s)
  /\ \A k \in 1..Len(cs) : LowerChar(s[i + k - 1]) = cs[k]

MaxGroups == 3
NoCaps    == [n \in 1..MaxGroups |-> <<0, 0>>]
NoMatch   == [ok |-> FALSE, caps |-> NoCaps, end |-> 0]

RECURSIVE MatchHere(_, _, _, _)
RECURSIVE TryAlt(_, _, _, _, _, _)
RECURSIVE TryRep(_, _, _, _, _, _, _)

\* match the node list todo at position i of s
MatchHere(todo, s, i, caps) ==
  IF Len(todo) = 0 THEN [ok |-> TRUE, caps |-> caps, end |-> i]
  ELSE
    LET h    == Head(todo)
        rest == Tail(todo)
    IN CASE h.t = "lit" ->
              IF LitAt(s, i, h.cs)
                THEN MatchHere(rest, s, i + Len(h.cs), caps) ELSE NoMatch
         [] h.t = "exact" ->
              IF i + Len(h.cs) - 1 <= Len(s)
                   /\ SubSeq(s, i, i + Len(h.cs) - 1) = h.cs
                THEN MatchHere(rest, s, i + Len(h.cs), caps) ELSE NoMatch
         [] h.t = "one" ->
              IF i <= Len(s) /\ InClass(s[i], h.cls)
                THEN MatchHere(rest, s, i + 1, caps) ELSE NoMatch
         [] h.t = "bol" ->
              IF i = 1 THEN MatchHere(rest, s, i, caps) ELSE NoMatch
         [] h.t = "eol" ->
              IF i = Len(s) + 1 THEN MatchHere(rest, s, i, caps) ELSE NoMatch
         [] h.t = "opt" ->
              LET r == MatchHere(h.sub \o rest, s, i, caps)
              IN IF r.ok THEN r ELSE MatchHere(rest, s, i, caps)
         [] h.t = "alt" -> TryAlt(h.subs, 1, rest, s, i, caps)
         [] h.t = "cap" ->
              MatchHere(<<CapOpen(h.n)>> \o h.sub \o <<CapClose(h.n)>> \o rest,
                        s, i, caps)
         [] h.t = "capopen" ->
              MatchHere(rest, s, i, [caps EXCEPT ![h.n] = <<i, i>>])
         [] h.t = "capclose" ->
              MatchHere(rest, s, i, [caps EXCEPT ![h.n] = <<caps[h.n][1], i>>])
         [] h.t = "rep" ->
              LET maxn == Run(s, i, h.cls)
              IN IF maxn < h.min THEN NoMatch
                 ELSE TryRep(h, rest, s, i, caps,
                             IF h.greedy THEN maxn ELSE h.min, maxn)

TryAlt(subs, k, rest, s, i, caps) ==
  IF k > Len(subs) THEN NoMatch
  ELSE LET r == MatchHere(subs[k] \o rest, s, i, caps)
       IN IF r.ok THEN r ELSE TryAlt(subs, k + 1, rest, s, i, caps)

TryRep(h, rest, s, i, caps, n, maxn) ==
  IF n < h.min \/ n > maxn THEN NoMatch
  ELSE LET r == MatchHere(rest, s, i + n, caps)
       IN IF r.ok THEN r
          ELSE TryRep(h, rest, s, i, caps,
                      IF h.greedy THEN n - 1 ELSE n + 1, maxn)

RECURSIVE SearchFrom(_, _, _)
SearchFrom(re, s, i) ==
  IF i > Len(s) + 1 THEN NoMatch
  ELSE LET r == MatchHere(re, s, i, NoCaps)
       IN IF r.ok THEN r ELSE SearchFrom(re, s, i + 1)

\* String.prototype.match without the g flag: the leftmost match or none
match(s, re) == SearchFrom(re, s, 1)

\* RegExp.prototype.test
test(re, s) == match(s, re).ok

\* the text of capture group n of a match
Group(s, m, n) == SubSeq(s, m.caps[n][1], m.caps[n][2] - 1)

(***************************************************************************)
(* The literal words of the patterns and keyword tests of the source        *)
(***************************************************************************)
w_hi == <<"h","i">>
w_hello == <<"h","e","l","l","o">>
w_hey == <<"h","e","y">>
w_hola == <<"h","o","l","a">>
w_howdy == <<"h","o","w","d","y">>
w_there == <<"t","h","e","r","e">>
w_everyone == <<"e","v","e","r","y","o","n","e">>
w_friend == <<"f","r","i","e","n","d">>
w_how == <<"h","o","w">>
w_are == <<"a","r","e">>
w_r == <<"r">>
w_you == <<"y","o","u">>
w_u == <<"u">>
w_what == <<"w","h","a","t">>
w_s == <<"s">>
w_up == <<"u","p">>
w_sup == <<"s","u","p">>
w_wassup == <<"w","a","s","s","u","p">>
w_good == <<"g","o","o","d">>
w_morning == <<"m","o","r","n","i","n","g">>
w_afternoon == <<"a","f","t","e","r","n","o","o","n">>
w_evening == <<"e","v","e","n","i","n","g">>
w_night == <<"n","i","g","h","t">>
w_thank == <<"t","h","a","n","k">>
w_thanks == <<"t","h","a","n","k","s">>
w_thx == <<"t","h","x">>
w_ty == <<"t","y">>
w_bye == <<"b","y","e">>
w_goodbye == <<"g","o","o","d","b","y","e">>
w_see == <<"s","e","e">>
w_cya == <<"c","y","a">>
w_can == <<"c","a","n">>
w_do == <<"d","o">>
w_help == <<"h","e","l","p">>
w_who == <<"w","h","o">>
w_nice == <<"n","i","c","e">>
w_cool == <<"c","o","o","l">>
w_awesome == <<"a","w","e","s","o","m","e">>
w_great == <<"g","r","e","a","t">>
w_perfect == <<"p","e","r","f","e","c","t">>
w_insert == <<"i","n","s","e","r","t">>
w_into == <<"i","n","t","o">>
w_table == <<"t","a","b","l","e">>
w_tables == <<"t","a","b","l","e","s">>
w_value == <<"v","a","l","u","e">>
w_values == <<"v","a","l","u","e","s">>
w_update == <<"u","p","d","a","t","e">>
w_set == <<"s","e","t">>
w_where == <<"w","h","e","r","e">>
w_delete == <<"d","e","l","e","t","e">>
w_from == <<"f","r","o","m">>
w_create == <<"c","r","e","a","t","e">>
w_a == <<"a">>
w_database == <<"d","a","t","a","b","a","s","e">>
w_databases == <<"d","a","t","a","b","a","s","e","s">>
w_called == <<"c","a","l","l","e","d">>
w_named == <<"n","a","m","e","d">>
w_with == <<"w","i","t","h">>
w_in == <<"i","n">>
w_drop == <<"d","r","o","p">>
w_show == <<"s","h","o","w">>
w_all == <<"a","l","l">>
w_columns == <<"c","o","l","u","m","n","s">>
w_of == <<"o","f">>
w_email == <<"e","m","a","i","l">>
w_id == <<"i","d">>
w_age == <<"a","g","e">>
w_count == <<"c","o","u","n","t">>
w_number == <<"n","u","m","b","e","r">>
w_phone == <<"p","h","o","n","e">>
w_apostrophe == <<"'">>
w_all_table == <<"a","l","l"," ","t","a","b","l","e">>
w_all_tables == <<"a","l","l"," ","t","a","b","l","e","s">>

w_null == <<"null">>

\* JavaScript null: a value that is no string of characters
null == w_null

(***************************************************************************)
(* greetingPatterns (lines 261-276).  Each response is named by its first  *)
(* sentence.                                                               *)
(***************************************************************************)
\* (w1|w2|...) over literal words
OneOf(ws) == Cap(1, <<Alt([k \in 1..Len(ws) |-> <<Lit(ws[k])>>])>>)

greetingPatterns == <<
  [pattern  |-> <<Bol, OneOf(<<w_hi, w_hello, w_hey, w_hola, w_howdy>>),
                  Trail5, Eol>>,
   response |-> "Hi there! What can I help you with today?"],
  [pattern  |-> <<Bol, OneOf(<<w_hi, w_hello, w_hey, w_hola, w_howdy>>), Sp1,
                  Cap(2, <<Alt(<< <<Lit(w_there)>>, <<Lit(w_everyone)>>,
                                  <<Lit(w_friend)>> >>)>>),
                  Trail5, Eol>>,
   response |-> "Hello! How can I assist you today?"],
  [pattern  |-> <<Lit(w_how), Sp1, OneOf(<<w_are, w_r>>), Sp1,
                  Cap(2, <<Alt(<< <<Lit(w_you)>>, <<Lit(w_u)>> >>)>>),
                  Trail3, Eol>>,
   response |-> "I'm doing great, thank you for asking!"],
  [pattern  |-> <<Bol,
                  Cap(1, <<Alt(<< <<Lit(w_what), Opt(<<Lit(w_apostrophe)>>),
                                    Lit(w_s), Sp1, Lit(w_up)>>,
                                  <<Lit(w_sup)>>, <<Lit(w_wassup)>> >>)>>),
                  Trail3, Eol>>,
   response |-> "Not much! Just here to help you with your database needs."],
  [pattern  |-> <<Bol,
                  Cap(1, <<Alt(<< <<Lit(w_good), Sp1, Lit(w_morning)>>,
                                  <<Lit(w_morning)>> >>)>>),
                  Trail5, Eol>>,
   response |-> "Good morning! Ready to help you with your database tasks."],
  [pattern  |-> <<Bol,
                  Cap(1, <<Alt(<< <<Lit(w_good), Sp1, Lit(w_afternoon)>>,
                                  <<Lit(w_afternoon)>> >>)>>),
                  Trail5, Eol>>,
   response |-> "Good afternoon! How can I help you with your database today?"],
  [pattern  |-> <<Bol,
                  Cap(1, <<Alt(<< <<Lit(w_good), Sp1, Lit(w_evening)>>,
                                  <<Lit(w_evening)>> >>)>>),
                  Trail5, Eol>>,
   response |-> "Good evening! What database operations would you like to perform?"],
  [pattern  |-> <<Bol,
                  Cap(1, <<Alt(<< <<Lit(w_good), Sp1, Lit(w_night)>>,
                                  <<Lit(w_night)>> >>)>>),
                  Trail5, Eol>>,
   response |-> "Good night! Before you go, is there anything you'd like me to help you with?"],
  [pattern  |-> <<Bol,
                  Cap(1, <<Alt(<< <<Lit(w_thank), Sp0, Lit(w_you)>>,
                                  <<Lit(w_thanks)>>, <<Lit(w_thx)>>,
                                  <<Lit(w_ty)>> >>)>>),
                  Trail5, Eol>>,
   response |-> "You're welcome! Let me know if you need anything else with your database."],
  [pattern  |-> <<Bol,
                  Cap(1, <<Alt(<< <<Lit(w_bye)>>, <<Lit(w_goodbye)>>,
                                  <<Lit(w_see), Sp1, Lit(w_you)>>,
                                  <<Lit(w_cya)>> >>)>>),
                  Trail5, Eol>>,
   response |-> "Goodbye! Feel free to come back anytime you need help with your database."],
  [pattern  |-> <<Lit(w_what), Sp1, Lit(w_can), Sp1, Lit(w_you), Sp1,
                  Lit(w_do), Trail3, Eol>>,
   response |-> "I can help you with database operations!"],
  [pattern  |-> <<Bol, Lit(w_help), Trail5, Eol>>,
   response |-> "I'm here to help! Here are some things you can ask me:"],
  [pattern  |-> <<Lit(w_who), Sp1, OneOf(<<w_are, w_r>>), Sp1,
                  Cap(2, <<Alt(<< <<Lit(w_you)>>, <<Lit(w_u)>> >>)>>),
                  Trail3, Eol>>,
   response |-> "I'm ChatDB, your AI database assistant!"],
  [pattern  |-> <<Bol, OneOf(<<w_nice, w_cool, w_awesome, w_great, w_perfect>>),
                  Trail5, Eol>>,
   response |-> "Glad you think so!"] >>

(***************************************************************************)
(* The patterns of processNaturalLanguageCommand (lines 289-375)           *)
(***************************************************************************)
\* /insert\s+(?:into\s+)?(?:table\s+)?(\w+)\s+(?:table\s+)?(?:values?\s+)?(.+)/i
insertRe ==
  <<Lit(w_insert), Sp1, Opt(<<Lit(w_into), Sp1>>), Opt(<<Lit(w_table), Sp1>>),
    Cap(1, <<Word1>>), Sp1, Opt(<<Lit(w_table), Sp1>>),
    Opt(<<Lit(w_value), Opt(<<Lit(w_s)>>), Sp1>>), Cap(2, <<Dot1>>)>>

\* /update\s+(?:table\s+)?(\w+)\s+(?:table\s+)?set\s+(.+?)\s+where\s+(.+)/i
updateRe ==
  <<Lit(w_update), Sp1, Opt(<<Lit(w_table), Sp1>>), Cap(1, <<Word1>>), Sp1,
    Opt(<<Lit(w_table), Sp1>>), Lit(w_set), Sp1, Cap(2, <<Dot1Lazy>>), Sp1,
    Lit(w_where), Sp1, Cap(3, <<Dot1>>)>>

\* /delete\s+(?:from\s+)?(?:table\s+)?(\w+)\s+(?:table\s+)?where\s+(.+)/i
deleteRowRe ==
  <<Lit(w_delete), Sp1, Opt(<<Lit(w_from), Sp1>>), Opt(<<Lit(w_table), Sp1>>),
    Cap(1, <<Word1>>), Sp1, Opt(<<Lit(w_table), Sp1>>), Lit(w_where), Sp1,
    Cap(2, <<Dot1>>)>>

\* /create\s+(?:a\s+)?database\s+(?:called\s+|named\s+)?(\w+)/i
createDbRe ==
  <<Lit(w_create), Sp1, Opt(<<Lit(w_a), Sp1>>), Lit(w_database), Sp1,
    Opt(<<Alt(<< <<Lit(w_called), Sp1>>, <<Lit(w_named), Sp1>> >>)>>),
    Cap(1, <<Word1>>)>>

\* /(?:create\s+(?:a\s+)?table\s+)(\w+)/i
createTableRe ==
  <<Lit(w_create), Sp1, Opt(<<Lit(w_a), Sp1>>), Lit(w_table), Sp1,
    Cap(1, <<Word1>>)>>

\* /(?:table\s+\w+\s+(?:with\s+)?)(.*?)(?:\s+in\s+database\s+|$)/i
columnsRe ==
  <<Lit(w_table), Sp1, Word1, Sp1, Opt(<<Lit(w_with), Sp1>>),
    Cap(1, <<Dot0Lazy>>),
    Alt(<< <<Sp1, Lit(w_in), Sp1, Lit(w_database), Sp1>>, <<Eol>> >>)>>

\* /in\s+(?:database\s+)?(\w+)\s*$/i
inDatabaseRe ==
  <<Lit(w_in), Sp1, Opt(<<Lit(w_database), Sp1>>), Cap(1, <<Word1>>), Sp0,
    Eol>>

\* /(?:delete|drop)\s+(?:database\s+)?(\w+)/i
deleteDbRe ==
  <<Alt(<< <<Lit(w_delete)>>, <<Lit(w_drop)>> >>), Sp1,
    Opt(<<Lit(w_database), Sp1>>), Cap(1, <<Word1>>)>>

\* /(?:delete|drop)\s+(?:table\s+)?(\w+)/i
deleteTableRe ==
  <<Alt(<< <<Lit(w_delete)>>, <<Lit(w_drop)>> >>), Sp1,
    Opt(<<Lit(w_table), Sp1>>), Cap(1, <<Word1>>)>>

\* /show\s+(?:(?:all\s+columns\s+of\s+)?)?(?:table\s+)?(\w+)(?:\s+table)?/i
showTableRe ==
  <<Lit(w_show), Sp1,
    Opt(<<Opt(<<Lit(w_all), Sp1, Lit(w_columns), Sp1, Lit(w_of), Sp1>>)>>),
    Opt(<<Lit(w_table), Sp1>>), Cap(1, <<Word1>>),
    Opt(<<Sp1, Lit(w_table)>>)>>

(***************************************************************************)
(* processNaturalLanguageCommand (lines 278-388).  Each branch of the      *)
(* function is an operator that gives the descriptor the branch returns,   *)
(* or Falls when control falls through to the next statement.              *)
(***************************************************************************)
Falls == [action |-> "none", details |-> <<>>]

\* Array.prototype.map
Map(xs, F(_)) == [k \in 1..Len(xs) |-> F(xs[k])]

\* lines 281-285: the first pattern of the list that tests true
RECURSIVE GreetingFrom(_, _)
GreetingFrom(userMessage, k) ==
  IF k > Len(greetingPatterns) THEN Falls
  ELSE IF test(greetingPatterns[k].pattern, trim(userMessage))
    THEN [action  |-> "conversation",
          details |-> [response |-> greetingPatterns[k].response]]
  ELSE GreetingFrom(userMessage, k + 1)

GreetingBranch(userMessage, msg) == GreetingFrom(userMessage, 1)

\* lines 288-296
InsertBranch(userMessage, msg) ==
  IF includes(msg, w_insert)
    THEN LET insertMatch == match(userMessage, insertRe)
         IN IF insertMatch.ok
              THEN LET tableName == Group(userMessage, insertMatch, 1)
                       valuesStr == Group(userMessage, insertMatch, 2)
                       values    == Map(split(valuesStr, ","), trim)
                   IN [action  |-> "insert_row",
                       details |-> [tableName |-> tableName,
                                    values |-> values]]
              ELSE Falls
    ELSE Falls

\* lines 299-307
UpdateBranch(userMessage, msg) ==
  IF includes(msg, w_update)
    THEN LET updateMatch == match(userMessage, updateRe)
         IN IF updateMatch.ok
              THEN [action  |-> "update_row",
                    details |-> [tableName |-> Group(userMessage, updateMatch, 1),
                                 set   |-> Group(userMessage, updateMatch, 2),
                                 where |-> Group(userMessage, updateMatch, 3)]]
              ELSE Falls
    ELSE Falls

\* lines 310-315
DeleteRowBranch(userMessage, msg) ==
  IF includes(msg, w_delete)
    THEN LET deleteMatch == match(userMessage, deleteRowRe)
         IN IF deleteMatch.ok
              THEN [action  |-> "delete_row",
                    details |-> [tableName |-> Group(userMessage, deleteMatch, 1),
                                 where |-> Group(userMessage, deleteMatch, 2)]]
              ELSE Falls
    ELSE Falls

\* lines 318-323
CreateDatabaseBranch(userMessage, msg) ==
  IF includes(msg, w_create) /\ includes(msg, w_database)
       /\ ~includes(msg, w_table)
    THEN LET dbMatch == match(userMessage, createDbRe)
         IN IF dbMatch.ok
              THEN [action  |-> "create_database",
                    details |-> [name |-> Group(userMessage, dbMatch, 1)]]
              ELSE Falls
    ELSE Falls

\* ColumnOf with the test for id before the test for email
ColumnOfIdFirst(col) ==
  IF includes(col, w_id) THEN [name |-> col, type |-> "integer"]
  ELSE IF includes(col, w_email) THEN [name |-> col, type |-> "text"]
  ELSE IF includes(col, w_age) \/ includes(col, w_count)
            \/ includes(col, w_number) \/ includes(col, w_phone)
    THEN [name |-> col, type |-> "integer"]
  ELSE [name |-> col, type |-> "text"]

\* lines 339-344: the keyword heuristic that types a column token
ColumnOf(col) ==
  IF includes(col, w_email) THEN [name |-> col, type |-> "text"]
  ELSE IF includes(col, w_id) THEN [name |-> col, type |-> "integer"]
  ELSE IF includes(col, w_age) \/ includes(col, w_count)
            \/ includes(col, w_number) \/ includes(col, w_phone)
    THEN [name |-> col, type |-> "integer"]
  ELSE [name |-> col, type |-> "text"]

\* line 338: the filter of the column tokens
KeepColumn(c) == c # <<>> /\ c # w_in

\* a create_table that skips the check of line 346
CreateTableResultUnchecked(tableName, columnsList, databaseName) ==
  [action  |-> "create_table",
   details |-> [name |-> tableName, columns |-> columnsList,
                databaseName |-> databaseName]]

\* lines 346-348: only a table with at least one column is returned
CreateTableResult(tableName, columnsList, databaseName) ==
  IF Len(columnsList) > 0
    THEN [action  |-> "create_table",
          details |-> [name |-> tableName, columns |-> columnsList,
                       databaseName |-> databaseName]]
    ELSE Falls

\* lines 326-350
CreateTableBranch(userMessage, msg) ==
  IF includes(msg, w_create)
       /\ (includes(msg, w_table) \/ includes(msg, w_tables))
    THEN LET tableMatch   == match(userMessage, createTableRe)
             columnsMatch == match(userMessage, columnsRe)
             dbMatch      == match(userMessage, inDatabaseRe)
         IN IF tableMatch.ok
              THEN LET tableName == Group(userMessage, tableMatch, 1)
                       columnsText ==
                         IF columnsMatch.ok
                           THEN Group(userMessage, columnsMatch, 1) ELSE <<>>
                       databaseName ==
                         IF dbMatch.ok
                           THEN Group(userMessage, dbMatch, 1) ELSE null
                       columnsList ==
                         Map(SelectSeq(Map(split(columnsText, ","),
                                           LAMBDA c : toLowerCase(trim(c))),
                                       KeepColumn),
                             ColumnOf)
                   IN CreateTableResult(tableName, columnsList, databaseName)
              ELSE Falls
    ELSE Falls

\* lines 353-358
DeleteDatabaseBranch(userMessage, msg) ==
  IF (includes(msg, w_delete) \/ includes(msg, w_drop))
       /\ includes(msg, w_database) /\ ~includes(msg, w_table)
    THEN LET dbMatch == match(userMessage, deleteDbRe)
         IN IF dbMatch.ok
              THEN [action  |-> "delete_database",
                    details |-> [databaseName |-> Group(userMessage, dbMatch, 1)]]
              ELSE Falls
    ELSE Falls

\* lines 361-363
ShowDatabasesBranch(userMessage, msg) ==
  IF includes(msg, w_show)
       /\ (includes(msg, w_database) \/ includes(msg, w_databases))
       /\ ~includes(msg, w_table)
    THEN [action |-> "show_databases", details |-> <<>>]
    ELSE Falls

\* lines 366-371
DeleteTableBranch(userMessage, msg) ==
  IF (includes(msg, w_delete) \/ includes(msg, w_drop))
       /\ includes(msg, w_table)
    THEN LET tableMatch == match(userMessage, deleteTableRe)
         IN IF tableMatch.ok
              THEN [action  |-> "delete_table",
                    details |-> [tableName |-> Group(userMessage, tableMatch, 1)]]
              ELSE Falls
    ELSE Falls

\* a show-table statement without the exclusion of "all table(s)"
ShowTableBranchNoExclusion(userMessage, msg) ==
  IF includes(msg, w_show)
    THEN LET tableMatch == match(userMessage, showTableRe)
         IN IF tableMatch.ok
              THEN [action  |-> "show_table",
                    details |-> [tableName |-> Group(userMessage, tableMatch, 1)]]
              ELSE Falls
    ELSE Falls

\* lines 374-379
ShowTableBranch(userMessage, msg) ==
  IF includes(msg, w_show)
    THEN LET tableMatch == match(userMessage, showTableRe)
         IN IF tableMatch.ok /\ ~includes(msg, w_all_table)
                 /\ ~includes(msg, w_all_tables)
              THEN [action  |-> "show_table",
                    details |-> [tableName |-> Group(userMessage, tableMatch, 1)]]
              ELSE Falls
    ELSE Falls

\* lines 382-384
ShowTablesBranch(userMessage, msg) ==
  IF includes(msg, w_show)
       /\ (includes(msg, w_all_table) \/ includes(msg, w_all_tables))
    THEN [action |-> "show_tables", details |-> [message |-> userMessage]]
    ELSE Falls

\* a default that hands back the normalised text instead of the original
DefaultBranchNormalised(userMessage, msg) ==
  [action |-> "query", details |-> [message |-> msg]]

\* line 387
DefaultBranch(userMessage, msg) ==
  [action |-> "query", details |-> [message |-> userMessage]]

\* the branch at position k of the function body
Branch(k, userMessage, msg) ==
  CASE k = 1  -> GreetingBranch(userMessage, msg)
    [] k = 2  -> InsertBranch(userMessage, msg)
    [] k = 3  -> UpdateBranch(userMessage, msg)
    [] k = 4  -> DeleteRowBranch(userMessage, msg)
    [] k = 5  -> CreateDatabaseBranch(userMessage, msg)
    [] k = 6  -> CreateTableBranch(userMessage, msg)
    [] k = 7  -> DeleteDatabaseBranch(userMessage, msg)
    [] k = 8  -> ShowDatabasesBranch(userMessage, msg)
    [] k = 9  -> DeleteTableBranch(userMessage, msg)
    [] k = 10 -> ShowTableBranch(userMessage, msg)
    [] k = 11 -> ShowTablesBranch(userMessage, msg)
    [] k = 12 -> DefaultBranch(userMessage, msg)

\* a body in which the show-table statement stands before show-databases
SwappedOrder == <<1, 2, 3, 4, 5, 6, 7, 10, 9, 8, 11, 12>>

RECURSIVE RunFromSwapped(_, _, _)
RunFromSwapped(k, userMessage, msg) ==
  LET r == Branch(SwappedOrder[k], userMessage, msg)
  IN IF r.action # "none" THEN r ELSE RunFromSwapped(k + 1, userMessage, msg)

\* the statements of the body run in program order until one returns
RECURSIVE RunFrom(_, _, _)
RunFrom(k, userMessage, msg) ==
  LET r == Branch(k, userMessage, msg)
  IN IF r.action # "none" THEN r ELSE RunFrom(k + 1, userMessage, msg)

processNaturalLanguageCommand(userMessage) ==
  LET msg == trim(toLowerCase(userMessage))
  IN RunFrom(1, userMessage, msg)

(***************************************************************************)
(* The state: the core keeps nothing between calls, so a behaviour is one  *)
(* call: the operation and its arguments (call), whether it has returned   *)
(* (pc) and the value it returned (ret).                                   *)
(***************************************************************************)
VARIABLES call, env, pc, ret

vars == <<call, env, pc, ret>>

\* env holds what the call depends on besides its arguments: the answers
\* of the JavaScript engine, of the parsing libraries and of the oracle
NoEnv == [none |-> TRUE]

(***************************************************************************)
(* Utterances handed to processNaturalLanguageCommand                      *)
(***************************************************************************)
MaxWords == 3
MaxCols  == 2

Concat(A, B) == {a \o b : a \in A, b \in B}

\* word sentences: 1..MaxWords words of the vocabulary joined by one space
Vocabulary ==
  {<<"s","h","o","w">>, <<"a","l","l">>, <<"t","a","b","l","e","s">>, <<"t","a","b","l","e">>, <<"d","a","t","a","b","a","s","e">>, <<"d","e","l","e","t","e">>, <<"d","r","o","p">>,
   <<"c","r","e","a","t","e">>, <<"i","n","s","e","r","t">>, <<"s","t","u","d","e","n","t">>}

RECURSIVE SentencesOf(_)
SentencesOf(n) ==
  IF n = 1 THEN Vocabulary
  ELSE {s \o <<" ">> \o w : s \in SentencesOf(n - 1), w \in Vocabulary}

WordSentences == UNION {SentencesOf(n) : n \in 1..MaxWords}

\* small talk: a phrase, alone or inside a longer sentence
GreetingPhrases ==
  {<<"h","i">>, <<"H","e","l","l","o">>, <<"h","e","y"," ","t","h","e","r","e">>, <<"h","o","w"," ","a","r","e"," ","y","o","u">>, <<"h","o","w"," ","r"," ","u">>, <<"w","h","a","t","s"," ","u","p">>,
   <<"w","h","a","t","'","s"," ","u","p">>, <<"g","o","o","d"," ","m","o","r","n","i","n","g">>, <<"a","f","t","e","r","n","o","o","n">>, <<"G","o","o","d"," "," ","E","v","e","n","i","n","g">>, <<"n","i","g","h","t">>,
   <<"t","h","a","n","k"," ","y","o","u">>, <<"t","h","a","n","k","y","o","u">>, <<"t","h","x">>, <<"s","e","e"," ","y","o","u">>, <<"w","h","a","t"," ","c","a","n"," ","y","o","u"," ","d","o">>,
   <<"h","e","l","p">>, <<"w","h","o"," ","a","r","e"," ","y","o","u">>, <<"a","w","e","s","o","m","e">>, <<"h","i"," ","f","r","i","e","n","d">>}

GreetingFronts == {<<>>, <<" ">>, <<"h","i",","," ">>, <<"s","h","o","w"," ","s","t","u","d","e","n","t"," ">>, <<"s","o"," ">>}
GreetingTails  == {<<>>, <<"!">>, <<" ","?">>, <<"!","!">>, <<".">>, <<" ","s","t","u","d","e","n","t">>, <<" ","\n">>}

GreetingUtterances == Concat(Concat(GreetingFronts, GreetingPhrases), GreetingTails)

\* create table T with c1, ..., cn [in database D]
CreateFronts == {<<"c","r","e","a","t","e"," ","t","a","b","l","e"," ">>, <<"c","r","e","a","t","e"," ","a"," ","t","a","b","l","e"," ">>, <<"C","r","e","a","t","e"," ","T","a","b","l","e"," ">>}
TableNames   == {<<"s","t","u","d","e","n","t">>, <<"i","n","s","e","r","t">>, <<"T","1">>}
ColumnTokens == {<<"i","d">>, <<"n","a","m","e">>, <<"e","m","a","i","l">>, <<"i","n">>, <<"A","g","e">>}

RECURSIVE ColumnListsOf(_)
ColumnListsOf(n) ==
  IF n = 1 THEN ColumnTokens
  ELSE {l \o <<","," ">> \o c : l \in ColumnListsOf(n - 1), c \in ColumnTokens}

ColumnLists == UNION {ColumnListsOf(n) : n \in 1..MaxCols}

DatabaseClauses ==
  {<<>>, <<" ","i","n"," ","d","a","t","a","b","a","s","e"," ","s","c","h","o","o","l">>, <<" ","i","n"," ","d","a","t","a","b","a","s","e"," ","C","o","l","l","e","g","e",".">>, <<" ","i","n"," ","s","c","h","o","o","l">>,
   <<" ","i","n"," ","d","a","t","a","b","a","s","e">>}

CreateTableUtterances ==
  Concat(Concat(Concat(Concat(CreateFronts, TableNames), {<<" ","w","i","t","h"," ">>}),
                ColumnLists), DatabaseClauses)
    \cup {<<"C","r","e","a","t","e"," ","t","a","b","l","e"," ","s","t","u","d","e","n","t"," ","w","i","t","h"," ","i","d",","," ","n","a","m","e",","," ","e","m","a","i","l",","," ","d","e","p","a","r","t","m","e","n","t"," ","i","n"," ","d","a","t","a","b","a","s","e"," ","c","o","l","l","e","g","e",".">>,
          <<"c","r","e","a","t","e"," ","t","a","b","l","e"," ","s","t","u","d","e","n","t">>, <<"c","r","e","a","t","e"," ","t","a","b","l","e"," ","s","t","u","d","e","n","t"," ">>, <<"c","r","e","a","t","e"," ","t","a","b","l","e">>,
          <<"c","r","e","a","t","e"," ","t","a","b","l","e"," ","s","t","u","d","e","n","t"," ","w","i","t","h"," ",",">>, <<"c","r","e","a","t","e"," ","t","a","b","l","e","s">>,
          <<"c","r","e","a","t","e"," ","t","a","b","l","e"," ","t"," ","w","i","t","h"," ","E","m","a","i","l","_","I","D",","," ","p","a","i","d",","," ","P","h","o","n","e",","," ","c","o","u","n","t",","," ","n","a","m","e">>}

\* create / delete / drop / show database N
DatabaseFronts ==
  {<<"d","e","l","e","t","e"," ","d","a","t","a","b","a","s","e"," ">>, <<"d","r","o","p"," ","d","a","t","a","b","a","s","e"," ">>, <<"D","e","l","e","t","e"," ","D","a","t","a","b","a","s","e"," ">>, <<"d","r","o","p"," ">>,
   <<"c","r","e","a","t","e"," ","d","a","t","a","b","a","s","e"," ">>, <<"c","r","e","a","t","e"," ","a"," ","d","a","t","a","b","a","s","e"," ","c","a","l","l","e","d"," ">>, <<"C","r","e","a","t","e"," ","d","a","t","a","b","a","s","e"," ","n","a","m","e","d"," ">>,
   <<"s","h","o","w"," ","d","a","t","a","b","a","s","e"," ">>, <<"s","h","o","w"," ">>, <<"s","h","o","w"," ","t","a","b","l","e"," ">>, <<"S","h","o","w"," ">>}
DatabaseNames ==
  {<<"s","c","h","o","o","l">>, <<"S","c","h","o","o","l">>, <<"t","i","m","e","t","a","b","l","e">>, <<"t","a","b","l","e","s">>, <<"d","a","t","a","b","a","s","e">>, <<"d","b","_","1">>,
   <<"i","n","s","e","r","t">>, <<"a","l","l">>, <<"d","a","t","a","b","a","s","e","s">>}
DatabaseTails == {<<>>, <<" ">>, <<" ","t","a","b","l","e">>}

DatabaseUtterances == Concat(Concat(DatabaseFronts, DatabaseNames), DatabaseTails)

\* insert / update / delete of rows
RowFronts ==
  {<<"i","n","s","e","r","t"," ">>, <<"i","n","s","e","r","t"," ","i","n","t","o"," ">>, <<"I","n","s","e","r","t"," ","i","n","t","o"," ","t","a","b","l","e"," ">>, <<"r","e","i","n","s","e","r","t"," ">>,
   <<"u","p","d","a","t","e"," ">>, <<"u","p","d","a","t","e"," ","t","a","b","l","e"," ">>, <<"d","e","l","e","t","e"," ">>, <<"d","e","l","e","t","e"," ","f","r","o","m"," ">>, <<"D","e","l","e","t","e"," ","f","r","o","m"," ","t","a","b","l","e"," ">>}
RowMiddles == {<<"s","t","u","d","e","n","t">>, <<"s","t","u","d","e","n","t"," ","t","a","b","l","e">>, <<"S","t","u","d","e","n","t"," ">>, <<>>}
RowTails ==
  {<<>>, <<" ">>, <<" ","v","a","l","u","e","s"," ","1","0","1",","," ","A","s","h","a",","," ","a","s","h","a","@","g","m","a","i","l",".","c","o","m">>, <<" ","v","a","l","u","e"," ","1",",">>, <<" ","1",","," ","J","o","h","n"," ","D","o","e">>,
   <<" ","s","e","t"," ","n","a","m","e"," ","="," ","A","n","a"," ","w","h","e","r","e"," ","i","d"," ","="," ","1","0","2">>, <<" ","s","e","t"," "," "," ","w","h","e","r","e"," ","x">>, <<" ","s","e","t"," ","n","a","m","e"," ","="," ","A","n","a">>,
   <<" ","w","h","e","r","e"," ","i","d"," ","="," ","1","0","1">>, <<" ","w","h","e","r","e">>, <<" ","w","h","e","r","e"," "," ">>}

RowUtterances == Concat(Concat(RowFronts, RowMiddles), RowTails)

\* other sentences
OtherUtterances ==
  {<<>>, <<" ">>, <<" ","T","e","l","l"," ","m","e"," ","a"," ","j","o","k","e"," ">>, <<"W","h","a","t"," ","i","s"," ","a"," ","D","a","t","a","b","a","s","e","?">>, <<"H","e","l","l","o"," ","w","o","r","l","d">>,
   <<"s","h","o","w"," ","a","l","l"," ","t","a","b","l","e","s"," ","i","n"," ","d","a","t","a","b","a","s","e"," ","x">>, <<"s","h","o","w"," ","a","l","l"," ","c","o","l","u","m","n","s"," ","o","f"," ","s","t","u","d","e","n","t"," ","t","a","b","l","e">>,
   <<"s","h","o","w"," ","a","l","l"," ","t","a","b","l","e">>, <<"S","h","o","w"," ","A","l","l"," ","T","a","b","l","e","s">>, <<"s","h","o","w"," "," ","s","t","u","d","e","n","t"," "," ","t","a","b","l","e">>,
   <<" ","s","h","o","w"," ","s","t","u","d","e","n","t">>, <<"s","h","o","w"," ","m","e"," ","t","h","e"," ","t","a","b","l","e","s">>, <<"s","h","o","w"," ","a","l","l","t","a","b","l","e","s">>,
   <<"p","l","e","a","s","e"," ","d","e","l","e","t","e"," ","t","h","e"," ","t","a","b","l","e"," ","s","t","u","d","e","n","t">>, <<"l","i","s","t"," ","t","a","b","l","e","s">>,
   <<"S","h","o","w"," ","a","l","l"," ","s","t","u","d","e","n","t","s",".">>,
   <<"s","h","o","w"," ","a","l","l"," ","s","t","u","d","e","n","t","s">>,
   <<"s","h","o","w"," ","a","l","l"," ","T","1">>,
   <<"S","H","O","W"," "," ","A","L","L"," ","s","t","u","d","e","n","t">>,
   <<"C","r","e","a","t","e"," ","a"," ","t","a","b","l","e"," ","n","a","m","e","d"," ","s","t","u","d","e","n","t","s"," ","w","i","t","h"," ","c","o","l","u","m","n","s"," ","i","d",","," ","n","a","m","e",","," ","a","n","d"," ","e","m","a","i","l",".">>,
   <<"I","n","s","e","r","t"," ","i","n","t","o"," ","s","t","u","d","e","n","t","s"," ","v","a","l","u","e","s"," ","1",","," ","J","o","h","n"," ","D","o","e",","," ","j","o","h","n","@","e","x","a","m","p","l","e",".","c","o","m",".">>,
   <<"i","n","s","e","r","t">>,
   <<"p","l","e","a","s","e"," ","i","n","s","e","r","t">>,
   <<"i","n","s","e","r","t",",","1">>,
   <<"I"," ","w","a","n","t"," ","t","o"," ","i","n","s","e","r","t">>}

Utterances ==
  WordSentences \cup GreetingUtterances \cup CreateTableUtterances
    \cup DatabaseUtterances \cup RowUtterances \cup OtherUtterances

(***************************************************************************)
(* The chat handler's call of the interpreter (routes, line 336)           *)
(***************************************************************************)
InitCmd ==
  /\ call \in [op : {"processNaturalLanguageCommand"}, userMessage : Utterances]
  /\ env = NoEnv
  /\ pc = "called"
  /\ ret = <<>>

Interpret ==
  /\ pc = "called"
  /\ call.op = "processNaturalLanguageCommand"
  /\ ret' = processNaturalLanguageCommand(call.userMessage)
  /\ pc' = "returned"
  /\ UNCHANGED <<call, env>>

NextCmd == Interpret

SpecCmd == InitCmd /\ [][NextCmd]_vars

\* the interpreter has returned
Interpreted == call.op = "processNaturalLanguageCommand" /\ pc = "returned"

(***************************************************************************)
(* Properties of processNaturalLanguageCommand                             *)
(***************************************************************************)
\* the actions of the branches, in the order the specification lists them
BranchOrder ==
  <<"conversation", "insert_row", "update_row", "delete_row",
    "create_database", "create_table", "delete_database", "show_databases",
    "delete_table", "show_table", "show_tables", "query">>

\* the trigger and the capture pattern of branch k hold for utterance u
Holds(k, u) == Branch(k, u, trim(toLowerCase(u))).action # "none"

\* the earliest branch, in the listed order, that holds for u
Earliest(u) ==
  CHOOSE k \in 1..12 : Holds(k, u) /\ \A j \in 1..(k - 1) : ~Holds(j, u)

\* C1: the interpreter is a first-match-wins decision list in the listed
\* order: the action returned is that of the earliest branch whose trigger
\* and capture pattern hold, e.g. "show all tables in database x" gives
\* show_tables.
C1_FirstMatchWins ==
  Interpreted =>
    /\ ret.action = BranchOrder[Earliest(call.userMessage)]
    /\ call.userMessage = <<"s","h","o","w"," ","a","l","l"," ","t","a","b","l","e","s"," ","i","n"," ","d","a","t","a","b","a","s","e"," ","x">>
         => ret.action = "show_tables"

\* several branches hold and the earliest of them was returned
C1_Witness ==
  /\ Interpreted
  /\ \E j \in 1..11 : \E k \in (j + 1)..11 :
       /\ Holds(j, call.userMessage) /\ Holds(k, call.userMessage)
       /\ \A i \in 1..(j - 1) : ~Holds(i, call.userMessage)
       /\ ret.action = BranchOrder[j]

\* C2: every call returns a descriptor; when no greeting and no command
\* branch matches, the descriptor is query with the original utterance,
\* neither trimmed nor lower-cased, as its message.
C2_TotalAndDefault ==
  Interpreted =>
    /\ \E k \in 1..12 : ret.action = BranchOrder[k]
    /\ (\A k \in 1..11 : ~Holds(k, call.userMessage))
         => ret = [action |-> "query",
                   details |-> [message |-> call.userMessage]]
    /\ ret.action = "query" => ret.details.message = call.userMessage

\* an unmatched utterance that trimming or lower-casing would change
C2_Witness ==
  /\ Interpreted
  /\ ret.action = "query"
  /\ trim(toLowerCase(call.userMessage)) # call.userMessage
  /\ \A k \in 1..11 : ~Holds(k, call.userMessage)

Anchored(k) ==
  LET p == greetingPatterns[k].pattern
  IN IF p[1].t = "bol" THEN p ELSE <<Bol>> \o p

\* C4: conversation is returned only when the entire trimmed utterance
\* matches a small-talk pattern, with the reply of the first such pattern; a
\* phrase that is only a part of a longer sentence never gives conversation.
C4_ConversationOnlyForWholeGreeting ==
  (Interpreted /\ ret.action = "conversation") =>
    \E k \in 1..Len(greetingPatterns) :
      /\ test(Anchored(k), trim(call.userMessage))
      /\ \A j \in 1..(k - 1) : ~test(Anchored(j), trim(call.userMessage))
      /\ ret.details.response = greetingPatterns[k].response

\* "delete database N" or "drop database N", N one word
DeleteDatabaseForm ==
  <<Bol, Alt(<< <<Lit(w_delete)>>, <<Lit(w_drop)>> >>), Sp1, Lit(w_database),
    Sp1, Cap(1, <<Word1>>), Eol>>

\* C5: "delete database N" and "drop database N", N a single word, return
\* delete_database with databaseName N, never delete_table.
C5_DeleteDatabaseForm ==
  Interpreted =>
    LET f == match(call.userMessage, DeleteDatabaseForm)
    IN f.ok =>
         /\ ret.action = "delete_database"
         /\ ret.details.databaseName = Group(call.userMessage, f, 1)

\* a single word
IsWord(s) == Len(s) > 0 /\ \A i \in 1..Len(s) : s[i] \in WordChars

\* the tokens of a comma-separated list
Tokens(list) == Map(split(list, ","), trim)

ColumnNames(columns) == [k \in 1..Len(columns) |-> columns[k].name]

\* "create [a] table T with c1, c2, ..., cn"
CreateTableForm ==
  <<Bol, Lit(w_create), Sp1, Opt(<<Lit(w_a), Sp1>>), Lit(w_table), Sp1,
    Cap(1, <<Word1>>), Sp1, Lit(w_with), Sp1, Cap(2, <<Dot1>>), Eol>>

\* C6: "create [a] table T with c1, ..., cn" without an "in database"
\* clause returns create_table with name T, the n column tokens in their
\* order (lower-cased) and databaseName null.
C6_CreateTableForm ==
  Interpreted =>
    LET f      == match(call.userMessage, CreateTableForm)
        tokens == Tokens(Group(call.userMessage, f, 2))
    IN (f.ok /\ \A k \in 1..Len(tokens) : IsWord(tokens[k])) =>
         /\ ret.action = "create_table"
         /\ ret.details.name = Group(call.userMessage, f, 1)
         /\ ColumnNames(ret.details.columns) = Map(tokens, toLowerCase)
         /\ ret.details.databaseName = null

\* "create table T with c1, ..., cn in database D", as the README writes
\* it with a final full stop or without one
CreateTableInDatabaseForm ==
  <<Bol, Lit(w_create), Sp1, Lit(w_table), Sp1, Cap(1, <<Word1>>), Sp1,
    Lit(w_with), Sp1, Cap(2, <<Dot1Lazy>>), Sp1, Lit(w_in), Sp1,
    Lit(w_database), Sp1, Cap(3, <<Word1>>), Opt(<<Lit(<<".">>)>>), Eol>>

\* C7: "create table T with c1, ..., cn in database D" returns create_table
\* with databaseName D and the columns c1..cn, the clause being no part of
\* a column name.
C7_CreateTableInDatabaseForm ==
  Interpreted =>
    LET f      == match(call.userMessage, CreateTableInDatabaseForm)
        tokens == Tokens(Group(call.userMessage, f, 2))
    IN (f.ok /\ \A k \in 1..Len(tokens) : IsWord(tokens[k])) =>
         /\ ret.action = "create_table"
         /\ ret.details.databaseName = Group(call.userMessage, f, 3)
         /\ ColumnNames(ret.details.columns) = Map(tokens, toLowerCase)

\* "show T", T one word
ShowForm == <<Bol, Lit(w_show), Sp1, Cap(1, <<Word1>>), Eol>>

HasAllTables(u) ==
  \/ includes(toLowerCase(u), w_all_table)
  \/ includes(toLowerCase(u), w_all_tables)

\* the outcomes of the show branches that do not depend on the table name
ShowExclusive ==
  /\ call.userMessage = <<"s","h","o","w"," ","a","l","l"," ","t","a","b","l","e","s">> => ret.action = "show_tables"
  /\ HasAllTables(call.userMessage) => ret.action # "show_table"
  /\ ~HasAllTables(call.userMessage) => ret.action # "show_tables"

Str(cs)     == [kind |-> "string", chars |-> cs]
Num(n)      == [kind |-> "number", num |-> n]
Bool(b)     == [kind |-> "boolean", b |-> b]
JsNull      == [kind |-> "null"]
JsUndefined == [kind |-> "undefined"]

EmptyStr == Str(<<>>)

\* StrDecimalLiteral and NonDecimalIntegerLiteral of StringToNumber
Sign     == Opt(<<One("sign")>>)
Exponent == Opt(<<Lit(<<"e">>), Sign, Rep("digit", 1, TRUE)>>)

StrDecimalLiteral ==
  <<Bol, Sign,
    Alt(<< <<Exact(<<"I","n","f","i","n","i","t","y">>)>>,
           <<Rep("digit", 1, TRUE),
             Opt(<<Exact(<<".">>), Rep("digit", 0, TRUE)>>), Exponent>>,
           <<Exact(<<".">>), Rep("digit", 1, TRUE), Exponent>> >>),
    Eol>>

NonDecimalIntegerLiteral ==
  <<Bol, Exact(<<"0">>),
    Alt(<< <<Lit(<<"x">>), Rep("hex", 1, TRUE)>>,
           <<Lit(<<"b">>), Rep("bin", 1, TRUE)>>,
           <<Lit(<<"o">>), Rep("oct", 1, TRUE)>> >>),
    Eol>>

\* Number(s) of a string is a number (not NaN): white space is stripped,
\* the empty string is 0, anything else must be a numeric literal
StringIsNumber(cs) ==
  LET t == trim(cs)
  IN \/ t = <<>>
     \/ test(StrDecimalLiteral, t)
     \/ test(NonDecimalIntegerLiteral, t)

\* !isNaN(Number(v)), line 25; the numbers of the cells are finite
IsNumber(v) ==
  CASE v.kind = "string"    -> StringIsNumber(v.chars)
    [] v.kind = "number"    -> TRUE
    [] v.kind = "boolean"   -> TRUE
    [] v.kind = "null"      -> TRUE
    [] v.kind = "undefined" -> FALSE

DigitChar(d) ==
  CASE d = 0 -> "0" [] d = 1 -> "1" [] d = 2 -> "2" [] d = 3 -> "3"
    [] d = 4 -> "4" [] d = 5 -> "5" [] d = 6 -> "6" [] d = 7 -> "7"
    [] d = 8 -> "8" [] d = 9 -> "9"

DigitValue(c) == CHOOSE d \in 0..9 : DigitChar(d) = c

RECURSIVE NatToString(_)
NatToString(n) ==
  IF n < 10 THEN <<DigitChar(n)>>
  ELSE Append(NatToString(n \div 10), DigitChar(n % 10))

\* String(v), line 28
String(v) ==
  CASE v.kind = "string"    -> v.chars
    [] v.kind = "number"    ->
         IF v.num < 0 THEN <<"-">> \o NatToString(0 - v.num)
         ELSE NatToString(v.num)
    [] v.kind = "boolean"   -> IF v.b THEN <<"t","r","u","e">> ELSE <<"f","a","l","s","e">>
    [] v.kind = "null"      -> <<"n","u","l","l">>
    [] v.kind = "undefined" -> <<"u","n","d","e","f","i","n","e","d">>

RECURSIVE NatOf(_)
NatOf(cs) ==
  IF Len(cs) = 0 THEN 0
  ELSE 10 * NatOf(SubSeq(cs, 1, Len(cs) - 1)) + DigitValue(cs[Len(cs)])

\* the date-only forms of the Date Time String Format: YYYY, YYYY-MM,
\* YYYY-MM-DD (the sampled cells hold no time of day)
DateOnlyFormat ==
  <<Bol, Cap(1, <<One("digit"), One("digit"), One("digit"), One("digit")>>),
    Opt(<<Exact(<<"-">>), Cap(2, <<One("digit"), One("digit")>>),
          Opt(<<Exact(<<"-">>), Cap(3, <<One("digit"), One("digit")>>)>>)>>),
    Eol>>

IsLeapYear(y) == (y % 4 = 0 /\ y % 100 # 0) \/ y % 400 = 0

DaysInMonth(y, m) ==
  IF m = 2 THEN (IF IsLeapYear(y) THEN 29 ELSE 28)
  ELSE IF m \in {4, 6, 9, 11} THEN 30 ELSE 31

\* a string in the date-only format whose elements are all legal
IsLegalDateOnly(cs) ==
  LET f == match(cs, DateOnlyFormat)
      y == NatOf(Group(cs, f, 1))
      m == IF f.caps[2][1] = 0 THEN 1 ELSE NatOf(Group(cs, f, 2))
      d == IF f.caps[3][1] = 0 THEN 1 ELSE NatOf(Group(cs, f, 3))
  IN f.ok /\ m \in 1..12 /\ d \in 1..DaysInMonth(y, m)

HasDigit(cs) == \E i \in 1..Len(cs) : cs[i] \in Digits

AllDigits(cs) == Len(cs) > 0 /\ \A i \in 1..Len(cs) : cs[i] \in Digits

\* the kind of text the engine's own date heuristics may or may not accept
LegacyKind(cs) == IF AllDigits(trim(cs)) THEN "digits" ELSE "mixed"

\* !isNaN(Date.parse(cs)), line 28.  A string in the standard format is a
\* date exactly when its elements are legal.  Any other string is left to
\* the heuristics of the engine: legacy names the kinds of such text this
\* engine accepts; a text without a digit names no day and is never a date.
StringIsDate(cs, legacy) ==
  IF match(cs, DateOnlyFormat).ok THEN IsLegalDateOnly(cs)
  ELSE HasDigit(cs) /\ LegacyKind(cs) \in legacy

IsDate(v, legacy) == StringIsDate(String(v), legacy)

(***************************************************************************)
(* inferColumnType (lines 21-32)                                           *)
(***************************************************************************)
\* line 22: the filter
NonEmpty(v) == v # JsNull /\ v # JsUndefined /\ v # EmptyStr

\* Array.prototype.every
Every(xs, P(_)) == \A k \in 1..Len(xs) : P(xs[k])

\* the function with the date test placed before the number test
inferColumnTypeDateFirst(values, legacy) ==
  LET nonEmptyValues == SelectSeq(values, NonEmpty)
  IN IF Len(nonEmptyValues) = 0 THEN "text"
     ELSE IF Every(nonEmptyValues, LAMBDA v : IsDate(v, legacy)) THEN "date"
     ELSE IF Every(nonEmptyValues, IsNumber) THEN "integer"
     ELSE "text"

inferColumnType(values, legacy) ==
  LET nonEmptyValues == SelectSeq(values, NonEmpty)
  IN IF Len(nonEmptyValues) = 0 THEN "text"
     ELSE IF Every(nonEmptyValues, IsNumber) THEN "integer"
     ELSE IF Every(nonEmptyValues, LAMBDA v : IsDate(v, legacy)) THEN "date"
     ELSE "text"

(***************************************************************************)
(* Columns handed to inferColumnType                                       *)
(***************************************************************************)
MaxValues == 3

SampleValues ==
  {JsNull, JsUndefined, EmptyStr, Str(<<"1">>), Str(<<"2">>), Str(<<"3">>), Str(<<"x">>),
   Str(<<"2","0","2","4","-","0","1","-","0","1">>), Str(<<"2","0","2","4","-","0","2","-","0","2">>), Str(<<"2","0","2","4">>),
   Str(<<" ">>), Str(<<"1","x">>), Num(7)}

SampleColumns == UNION {[1..n -> SampleValues] : n \in 0..MaxValues}

LegacyKinds == {"digits", "mixed"}

InitInfer ==
  /\ call \in [op : {"inferColumnType"}, values : SampleColumns]
  /\ env \in [legacy : SUBSET LegacyKinds]
  /\ pc = "called"
  /\ ret = <<>>

Infer ==
  /\ pc = "called"
  /\ call.op = "inferColumnType"
  /\ ret' = inferColumnType(call.values, env.legacy)
  /\ pc' = "returned"
  /\ UNCHANGED <<call, env>>

NextInfer == Infer

SpecInfer == InitInfer /\ [][NextInfer]_vars

Inferred == call.op = "inferColumnType" /\ pc = "returned"

\* the entries of the column that are not discarded
Remaining == {k \in 1..Len(call.values) :
                call.values[k] \notin {JsNull, JsUndefined, EmptyStr}}

Column(cells) == [k \in 1..Len(cells) |-> Str(cells[k])]

\* C9: null, undefined and "" are discarded; nothing left gives text; all
\* numbers gives integer; otherwise all dates gives date; otherwise text.
\* A column of bare integer strings is never date, one value that is
\* neither a number nor a date forces text, and the four examples of the
\* specification hold.
C9_InferColumnType ==
  Inferred =>
    LET number(k) == IsNumber(call.values[k])
        date(k)   == IsDate(call.values[k], env.legacy)
    IN /\ Remaining = {} => ret = "text"
       /\ (Remaining # {} /\ \A k \in Remaining : number(k)) => ret = "integer"
       /\ (Remaining # {} /\ (\E k \in Remaining : ~number(k))
             /\ \A k \in Remaining : date(k)) => ret = "date"
       /\ ((\E k \in Remaining : ~number(k)) /\ (\E k \in Remaining : ~date(k)))
            => ret = "text"
       /\ (Remaining # {} /\ \A k \in Remaining :
             call.values[k].kind = "string" /\ AllDigits(call.values[k].chars))
            => ret # "date"
       /\ (\E k \in Remaining : ~number(k) /\ ~date(k)) => ret = "text"
       /\ call.values = Column(<<<<"1">>, <<"2">>, <<"3">>>>) => ret = "integer"
       /\ call.values = Column(<<<<"2","0","2","4","-","0","1","-","0","1">>, <<"2","0","2","4","-","0","2","-","0","2">>>>) => ret = "date"
       /\ call.values = Column(<<<<"1">>, <<"x">>>>) => ret = "text"
       /\ call.values = <<>> => ret = "text"

\* a column of bare integer strings that are also dates for the engine,
\* with a discarded entry, typed integer
C9_Witness ==
  /\ Inferred
  /\ Remaining # {} /\ Remaining # 1..Len(call.values)
  /\ \A k \in Remaining :
       /\ call.values[k].kind = "string" /\ AllDigits(call.values[k].chars)
       /\ IsDate(call.values[k], env.legacy)
  /\ ret = "integer"


(***************************************************************************)
(* The tabular extractors (lines 53-197).  A JavaScript array is a         *)
(* sequence, an object a function from its keys, a table the record        *)
(* {name, columns, rows}; the list of tables of a result is JsArray(...)   *)
(* because the image extractor may hand back any JSON value in its place.  *)
(***************************************************************************)
JsArray(items) == [kind |-> "array", items |-> items]

\* an ExtractedData without and with textContent
Tables(tables)           == [tables |-> JsArray(tables), textContent |-> JsUndefined]
TablesAndText(tables, t) == [tables |-> JsArray(tables), textContent |-> Str(t)]

\* what a call comes to: a returned value or a thrown error
Returns(v) == [threw |-> FALSE, value |-> v]
Throws     == [threw |-> TRUE, value |-> JsUndefined]

\* String.prototype.replace(/\s+/g, "_")
RECURSIVE SpacesToUnderscore(_)
SpacesToUnderscore(s) ==
  IF Len(s) = 0 THEN <<>>
  ELSE IF s[1] \in SpaceChars
    THEN <<"_">> \o SpacesToUnderscore(SubSeq(s, 1 + Run(s, 1, "space"), Len(s)))
  ELSE <<s[1]>> \o SpacesToUnderscore(Tail(s))

\* String.prototype.replace(/"/g, "")
RemoveQuotes(s) == SelectSeq(s, LAMBDA c : c # "\"")

\* String.prototype.replace(/[^a-z0-9_]/g, "")
KeepIdentifierChars(s) ==
  SelectSeq(s, LAMBDA c : c \in LowerLetters \cup Digits \cup {"_"})

\* String.prototype.split(/\r?\n/)
SplitLines(content) ==
  LET pieces == split(content, "\n")
  IN [k \in 1..Len(pieces) |->
        IF k < Len(pieces) /\ Len(pieces[k]) > 0
             /\ pieces[k][Len(pieces[k])] = "\r"
          THEN SubSeq(pieces[k], 1, Len(pieces[k]) - 1)
          ELSE pieces[k]]

\* the object built by headers.forEach((header, idx) => rowData[header] = v):
\* one key for each distinct header, holding the value of its last position
RowObject(headers, ValueAt(_)) ==
  LET positions == {k \in 1..Len(headers) : headers[k] # <<"hole">>}
  IN [h \in {headers[k] : k \in positions} |->
        ValueAt(CHOOSE k \in positions :
                  headers[k] = h /\ \A j \in positions : headers[j] = h => j <= k)]

\* lines 77 and 113: Object.values(row).some(v => v !== null && v !== "")
RowHasValue(row) == \E h \in DOMAIN row : row[h] # JsNull /\ row[h] # EmptyStr

\* line 95: the name of a CSV header cell
CsvHeader(h) == RemoveQuotes(SpacesToUnderscore(toLowerCase(trim(h))))

\* line 101: cells[idx]?.trim().replace(/"/g, "") (idx counted from 1)
CsvColumnCell(row, idx) ==
  LET cells == split(row, ",")
  IN IF idx <= Len(cells) THEN Str(RemoveQuotes(trim(cells[idx])))
     ELSE JsUndefined

\* lines 107-110: cells[idx] || null
CsvRowCell(line, idx) ==
  LET cells == Map(split(line, ","), LAMBDA c : RemoveQuotes(trim(c)))
  IN IF idx <= Len(cells) /\ Len(cells[idx]) > 0 THEN Str(cells[idx])
     ELSE JsNull

\* lines 89-122
extractFromCSV(content, legacy) ==
  LET lines == SelectSeq(SplitLines(content), LAMBDA line : Len(trim(line)) > 0)
  IN IF Len(lines) < 2 THEN Returns(Tables(<<>>))
     ELSE
       LET headers  == Map(split(lines[1], ","), CsvHeader)
           dataRows == Tail(lines)
           columns  ==
             [idx \in 1..Len(headers) |->
                [name |-> headers[idx],
                 type |-> inferColumnType(
                            [r \in 1..Len(dataRows) |->
                               CsvColumnCell(dataRows[r], idx)], legacy)]]
           rows ==
             SelectSeq([r \in 1..Len(dataRows) |->
                          RowObject(headers,
                                    LAMBDA idx : CsvRowCell(dataRows[r], idx))],
                       RowHasValue)
       IN Returns(Tables(<<[name |-> <<"i","m","p","o","r","t","e","d","_","c","s","v">>, columns |-> columns,
                            rows |-> rows]>>))

\* a position of a row that holds no element: sheet_to_json with header: 1
\* leaves the cells that the sheet does not have unset
JsHole   == [kind |-> "hole"]
HoleName == <<"hole">>

\* row[idx] (idx counted from 1): a hole or a position past the end reads
\* as undefined
CellAt(row, idx) ==
  IF idx <= Len(row) /\ row[idx] # JsHole THEN row[idx] ELSE JsUndefined

\* h || "column": the falsy values are undefined, null, "", 0 and false
Falsy(v) ==
  \/ v \in {JsUndefined, JsNull, EmptyStr}
  \/ v.kind = "number" /\ v.num = 0
  \/ v.kind = "boolean" /\ ~v.b

\* line 63: the name of a header cell; map leaves a hole a hole
ExcelHeader(h) ==
  IF h = JsHole THEN HoleName
  ELSE SpacesToUnderscore(toLowerCase(IF Falsy(h) THEN <<"c","o","l","u","m","n">> ELSE String(h)))

\* lines 57-84 for one sheet: no table, or the table of the sheet
ExcelTable(sheet, legacy) ==
  LET jsonData == sheet.jsonData
  IN IF Len(jsonData) < 2 THEN <<>>
     ELSE
       LET headers  == Map(jsonData[1], ExcelHeader)
           dataRows == Tail(jsonData)
           columns  ==
             [idx \in 1..Len(headers) |->
                IF headers[idx] = HoleName THEN JsHole
                ELSE [name |-> headers[idx],
                      type |-> inferColumnType(
                                 [r \in 1..Len(dataRows) |->
                                    CellAt(dataRows[r], idx)], legacy)]]
           rows ==
             SelectSeq([r \in 1..Len(dataRows) |->
                          RowObject(headers,
                                    LAMBDA idx :
                                      IF CellAt(dataRows[r], idx) # JsUndefined
                                        THEN CellAt(dataRows[r], idx)
                                        ELSE JsNull)],
                       RowHasValue)
       IN <<[name |-> SpacesToUnderscore(toLowerCase(sheet.sheetName)),
             columns |-> columns, rows |-> rows]>>

RECURSIVE ExcelTables(_, _)
ExcelTables(sheets, legacy) ==
  IF Len(sheets) = 0 THEN <<>>
  ELSE ExcelTable(Head(sheets), legacy) \o ExcelTables(Tail(sheets), legacy)

\* lines 53-87; xlsx is what XLSX.read and sheet_to_json make of the
\* buffer: an error thrown, or the sheets of the workbook in order
extractFromExcel(xlsx, legacy) ==
  IF xlsx.threw THEN Throws
  ELSE Returns(Tables(ExcelTables(xlsx.value, legacy)))


(***************************************************************************)
(* The unstructured-text extractor (lines 124-197)                         *)
(***************************************************************************)
\* line.split(/\s{2,}|\t/): a separator is a run of two or more whitespace
\* characters, or one tab
RECURSIVE SplitCellsFrom(_, _, _)
SplitCellsFrom(line, i, cur) ==
  IF i > Len(line) THEN <<cur>>
  ELSE LET n == Run(line, i, "space")
       IN IF n >= 2 THEN <<cur>> \o SplitCellsFrom(line, i + n, <<>>)
          ELSE IF line[i] = "\t" THEN <<cur>> \o SplitCellsFrom(line, i + 1, <<>>)
          ELSE SplitCellsFrom(line, i + 1, Append(cur, line[i]))

\* line 149
CellsOf(line) ==
  SelectSeq(Map(SplitCellsFrom(line, 1, <<>>), trim), LAMBDA c : Len(c) > 0)

\* `col_${idx}` for the position idx counted from 1
ColName(idx) == <<"c","o","l","_">> \o NatToString(idx - 1)

\* line 176
PdfHeader(h) == KeepIdentifierChars(SpacesToUnderscore(toLowerCase(h)))

\* createTableFromData with the header line kept among the data rows
createTableFromDataHeaderAsRow(data, tableIndex, legacy) ==
  IF Len(data) < 2 THEN <<>>
  ELSE
    LET headers  == Map(data[1], PdfHeader)
        dataRows == data
        names    == [idx \in 1..Len(headers) |->
                       IF Len(headers[idx]) > 0 THEN headers[idx]
                       ELSE ColName(idx)]
        columns  ==
          [idx \in 1..Len(headers) |->
             [name |-> names[idx],
              type |-> inferColumnType(
                         [r \in 1..Len(dataRows) |->
                            IF idx <= Len(dataRows[r])
                              THEN Str(dataRows[r][idx]) ELSE EmptyStr],
                         legacy)]]
        rows ==
          [r \in 1..Len(dataRows) |->
             RowObject(names,
                       LAMBDA idx :
                         IF idx <= Len(dataRows[r]) /\ Len(dataRows[r][idx]) > 0
                           THEN Str(dataRows[r][idx]) ELSE JsNull)]
    IN <<[name |-> <<"p","d","f","_","t","a","b","l","e","_">> \o NatToString(tableIndex + 1),
          columns |-> columns, rows |-> rows]>>

\* lines 173-197
createTableFromData(data, tableIndex, legacy) ==
  IF Len(data) < 2 THEN <<>>
  ELSE
    LET headers  == Map(data[1], PdfHeader)
        dataRows == Tail(data)
        names    == [idx \in 1..Len(headers) |->
                       IF Len(headers[idx]) > 0 THEN headers[idx]
                       ELSE ColName(idx)]
        columns  ==
          [idx \in 1..Len(headers) |->
             [name |-> names[idx],
              type |-> inferColumnType(
                         [r \in 1..Len(dataRows) |->
                            IF idx <= Len(dataRows[r])
                              THEN Str(dataRows[r][idx]) ELSE EmptyStr],
                         legacy)]]
        rows ==
          [r \in 1..Len(dataRows) |->
             RowObject(names,
                       LAMBDA idx :
                         IF idx <= Len(dataRows[r]) /\ Len(dataRows[r][idx]) > 0
                           THEN Str(dataRows[r][idx]) ELSE JsNull)]
    IN <<[name |-> <<"p","d","f","_","t","a","b","l","e","_">> \o NatToString(tableIndex + 1),
          columns |-> columns, rows |-> rows]>>

\* lines 148-162: the scan after one more line
ScanLine(st, line, legacy) ==
  LET cells == CellsOf(line)
  IN IF Len(cells) >= 2
       THEN [st EXCEPT !.inTable = TRUE,
                       !.tableData =
                          Append(IF st.inTable THEN st.tableData ELSE <<>>, cells)]
     ELSE IF st.inTable /\ Len(st.tableData) >= 2
       THEN [tables |-> st.tables
                          \o createTableFromData(st.tableData, Len(st.tables), legacy),
             tableData |-> <<>>, inTable |-> FALSE]
     ELSE st

RECURSIVE ScanLines(_, _, _)
ScanLines(st, lines, legacy) ==
  IF Len(lines) = 0 THEN st
  ELSE ScanLines(ScanLine(st, Head(lines), legacy), Tail(lines), legacy)

\* lines 141-171
extractTablesFromText(text, legacy) ==
  LET lines == SelectSeq(Map(split(text, "\n"), trim), LAMBDA l : Len(l) > 0)
      st    == ScanLines([tables |-> <<>>, tableData |-> <<>>, inTable |-> FALSE],
                         lines, legacy)
  IN IF st.inTable /\ Len(st.tableData) >= 2
       THEN st.tables \o createTableFromData(st.tableData, Len(st.tables), legacy)
     ELSE st.tables

\* lines 124-139; pdf is what pdfParse makes of the buffer: an error thrown,
\* or the data it resolves to.  A text that is no string makes text.split
\* throw, and the catch of line 135 takes that error like any other
extractFromPDF(pdf, legacy) ==
  IF pdf.threw \/ pdf.value.text.kind # "string" THEN Returns(Tables(<<>>))
  ELSE Returns(TablesAndText(extractTablesFromText(pdf.value.text.chars, legacy),
                             pdf.value.text.chars))


(***************************************************************************)
(* JSON.parse (line 247).  An object is a function from its keys, the      *)
(* later of two equal keys winning; a number keeps its exact value, an     *)
(* integer as Num(n) and any other as mantissa * 10^scale.                 *)
(***************************************************************************)
JsObject(fields) == [kind |-> "object", fields |-> fields]

\* the grave accent, which a string of the module cannot hold as written
Backtick == "backtick"

\* the characters of the codes 32..126, in order
Ascii ==
  <<" ","!","\"","#","$","%","&","'","(",")","*","+",",","-",".","/",
    "0","1","2","3","4","5","6","7","8","9",":",";","<","=",">","?",
    "@","A","B","C","D","E","F","G","H","I","J","K","L","M","N","O",
    "P","Q","R","S","T","U","V","W","X","Y","Z","[","\\","]","^","_",
    Backtick,"a","b","c","d","e","f","g","h","i","j","k","l","m","n","o",
    "p","q","r","s","t","u","v","w","x","y","z","{","|","}","~">>

HexDigitValue(c) ==
  IF c \in Digits THEN DigitValue(c)
  ELSE CASE LowerChar(c) = "a" -> 10 [] LowerChar(c) = "b" -> 11
         [] LowerChar(c) = "c" -> 12 [] LowerChar(c) = "d" -> 13
         [] LowerChar(c) = "e" -> 14 [] LowerChar(c) = "f" -> 15

\* the character of a code unit; the codes that the strings of the model do
\* not carry are one character apart from all of them
CodeUnit(code) ==
  IF code \in 32..126 THEN Ascii[code - 31]
  ELSE CASE code = 9  -> "\t"
         [] code = 10 -> "\n"
         [] code = 12 -> "\f"
         [] code = 13 -> "\r"
         [] OTHER     -> "other"

ParseFail == [ok |-> FALSE, value |-> JsUndefined, next |-> 0]
Parsed(v, next) == [ok |-> TRUE, value |-> v, next |-> next]

\* the position after the white space that starts at i
SkipWs(s, i) == i + Run(s, i, "space")

StartsAt(s, i, cs) ==
  i + Len(cs) - 1 <= Len(s) /\ SubSeq(s, i, i + Len(cs) - 1) = cs

\* the characters of a string up to its closing quote
RECURSIVE ParseStringChars(_, _, _)
ParseStringChars(s, j, acc) ==
  IF j > Len(s) THEN ParseFail
  ELSE IF s[j] = "\"" THEN Parsed(Str(acc), j + 1)
  ELSE IF s[j] \in {"\t", "\n", "\r", "\f"} THEN ParseFail
  ELSE IF s[j] # "\\" THEN ParseStringChars(s, j + 1, Append(acc, s[j]))
  ELSE IF j + 1 > Len(s) THEN ParseFail
  ELSE
    LET e == s[j + 1]
    IN IF e \in {"\"", "\\", "/"}
         THEN ParseStringChars(s, j + 2, Append(acc, e))
       ELSE IF e \in {"b", "f", "n", "r", "t"}
         THEN ParseStringChars(s, j + 2,
                Append(acc, CASE e = "b" -> CodeUnit(8) [] e = "f" -> "\f"
                              [] e = "n" -> "\n" [] e = "r" -> "\r"
                              [] e = "t" -> "\t"))
       ELSE IF e = "u" /\ j + 5 <= Len(s)
                 /\ \A k \in 2..5 : InClass(s[j + k], "hex")
         THEN ParseStringChars(s, j + 6,
                Append(acc, CodeUnit(4096 * HexDigitValue(s[j + 2])
                                     + 256 * HexDigitValue(s[j + 3])
                                     + 16 * HexDigitValue(s[j + 4])
                                     + HexDigitValue(s[j + 5]))))
       ELSE ParseFail

\* a JSON number: an optional minus, an integer without leading zero, an
\* optional fraction and an optional exponent
jsonNumberRe ==
  <<Opt(<<Exact(<<"-">>)>>),
    Cap(1, <<Alt(<<<<Exact(<<"0">>)>>,
                   <<One("nonzero"), Rep("digit", 0, TRUE)>>>>)>>),
    Opt(<<Exact(<<".">>), Cap(2, <<Rep("digit", 1, TRUE)>>)>>),
    Opt(<<Lit(<<"e">>), Cap(3, <<Sign, Rep("digit", 1, TRUE)>>)>>)>>

RECURSIVE Pow10(_)
Pow10(n) == IF n = 0 THEN 1 ELSE 10 * Pow10(n - 1)

\* mantissa * 10^scale as a value
RECURSIVE Scaled(_, _)
Scaled(mantissa, scale) ==
  IF mantissa = 0 THEN Num(0)
  ELSE IF scale >= 0 THEN Num(mantissa * Pow10(scale))
  ELSE IF mantissa % 10 = 0 THEN Scaled(mantissa \div 10, scale + 1)
  ELSE [kind |-> "number", num |-> mantissa, scale |-> scale]

\* the value of the number matched by m at position i
NumberValue(s, i, m, frac, exp) ==
  Parsed(Scaled((IF s[i] = "-" THEN 0 - 1 ELSE 1)
                  * NatOf(Group(s, m, 1) \o frac),
                (IF Len(exp) > 0 /\ exp[1] = "-"
                   THEN 0 - NatOf(Tail(exp))
                   ELSE IF Len(exp) > 0 /\ exp[1] = "+" THEN NatOf(Tail(exp))
                   ELSE NatOf(exp))
                  - Len(frac)),
         m.end)

NumberMatched(s, i, m) ==
  IF ~m.ok THEN ParseFail
  ELSE NumberValue(s, i, m, Group(s, m, 2), Group(s, m, 3))

ParseNumber(s, i) == NumberMatched(s, i, MatchHere(jsonNumberRe, s, i, NoCaps))

RECURSIVE ParseValue(_, _)
RECURSIVE ParseMembers(_, _, _)
RECURSIVE ParseElements(_, _, _)
RECURSIVE AfterKey(_, _, _)
RECURSIVE AfterColon(_, _, _, _)
RECURSIVE AfterMember(_, _, _, _)
RECURSIVE EndOfMember(_, _, _)
RECURSIVE AfterElement(_, _, _)
RECURSIVE EndOfElement(_, _, _)

\* the object or the array that opens at position i - 1, j being the
\* position of what follows the bracket
ParseBracketed(s, j, close) ==
  IF j <= Len(s) /\ s[j] = close
    THEN Parsed(IF close = "}" THEN JsObject(<<>>) ELSE JsArray(<<>>), j + 1)
  ELSE IF close = "}" THEN ParseMembers(s, j, <<>>)
  ELSE ParseElements(s, j, <<>>)

\* the value that starts at position i
ParseValue(s, i) ==
  IF i > Len(s) THEN ParseFail
  ELSE IF s[i] = "{" THEN ParseBracketed(s, SkipWs(s, i + 1), "}")
  ELSE IF s[i] = "[" THEN ParseBracketed(s, SkipWs(s, i + 1), "]")
  ELSE IF s[i] = "\"" THEN ParseStringChars(s, i + 1, <<>>)
  ELSE IF StartsAt(s, i, <<"t","r","u","e">>) THEN Parsed(Bool(TRUE), i + 4)
  ELSE IF StartsAt(s, i, <<"f","a","l","s","e">>) THEN Parsed(Bool(FALSE), i + 5)
  ELSE IF StartsAt(s, i, <<"n","u","l","l">>) THEN Parsed(JsNull, i + 4)
  ELSE ParseNumber(s, i)

\* the members of an object from the key at position i
ParseMembers(s, i, fields) ==
  IF i > Len(s) \/ s[i] # "\"" THEN ParseFail
  ELSE AfterKey(s, ParseStringChars(s, i + 1, <<>>), fields)

AfterKey(s, key, fields) ==
  IF ~key.ok THEN ParseFail
  ELSE AfterColon(s, key.value.chars, SkipWs(s, key.next), fields)

AfterColon(s, name, colon, fields) ==
  IF colon > Len(s) \/ s[colon] # ":" THEN ParseFail
  ELSE AfterMember(s, name, ParseValue(s, SkipWs(s, colon + 1)), fields)

\* a later member takes the place of an earlier one of the same name
AfterMember(s, name, v, fields) ==
  IF ~v.ok THEN ParseFail
  ELSE EndOfMember(s, SkipWs(s, v.next),
                   [k \in DOMAIN fields \cup {name} |->
                      IF k = name THEN v.value ELSE fields[k]])

EndOfMember(s, e, fields) ==
  IF e > Len(s) THEN ParseFail
  ELSE IF s[e] = "," THEN ParseMembers(s, SkipWs(s, e + 1), fields)
  ELSE IF s[e] = "}" THEN Parsed(JsObject(fields), e + 1)
  ELSE ParseFail

\* the elements of an array from the value at position i
ParseElements(s, i, items) == AfterElement(s, ParseValue(s, i), items)

AfterElement(s, v, items) ==
  IF ~v.ok THEN ParseFail
  ELSE EndOfElement(s, SkipWs(s, v.next), Append(items, v.value))

EndOfElement(s, e, items) ==
  IF e > Len(s) THEN ParseFail
  ELSE IF s[e] = "," THEN ParseElements(s, SkipWs(s, e + 1), items)
  ELSE IF s[e] = "]" THEN Parsed(JsArray(items), e + 1)
  ELSE ParseFail

\* the value parsed, when nothing but white space follows it
WholeText(text, v) ==
  IF v.ok /\ SkipWs(text, v.next) = Len(text) + 1 THEN Returns(v.value)
  ELSE Throws

\* JSON.parse: the value of the text, or a SyntaxError thrown
JSONparse(text) == WholeText(text, ParseValue(text, SkipWs(text, 1)))

(***************************************************************************)
(* The image extractor (lines 199-259)                                     *)
(***************************************************************************)
\* a property that holds a method, which returns a value or throws
Method(outcome) == [kind |-> "function", result |-> outcome]

\* line 244: an opening brace, any characters (greedy), a closing brace
jsonRe == <<Cap(1, <<Exact(<<"{">>), Rep("any", 0, TRUE), Exact(<<"}">>)>>)>>

\* parsed.tables for the object parsed
Member(obj, key) ==
  IF key \in DOMAIN obj.fields THEN obj.fields[key] ELSE JsUndefined

\* lines 233-242: the value left in responseText, or an error thrown
ResponseText(response) ==
  IF response.text.kind = "function" THEN response.text.result
  ELSE IF ~Falsy(response.text) THEN Returns(Str(String(response.text)))
  ELSE IF response.response \notin {JsUndefined, JsNull}
            /\ ~Falsy(response.response.text)
    THEN IF response.response.text.kind = "function"
           THEN response.response.text.result
           ELSE Returns(Str(String(response.response.text)))
  ELSE Returns(EmptyStr)

\* lines 248-251: the result made of the object parsed
FromParsed(tables) ==
  Returns([tables |-> IF Falsy(tables) THEN JsArray(<<>>) ELSE tables,
           textContent |-> Str(<<"E","x","t","r","a","c","t","e","d"," ","f","r","o","m"," ","i","m","a","g","e"," ","u","s","i","n","g"," ","A","I">>)])

\* lines 246-253 and the catch of line 255 for the error of JSON.parse
FromJson(parsed) ==
  IF parsed.threw THEN Returns(Tables(<<>>))
  ELSE FromParsed(Member(parsed.value, <<"t","a","b","l","e","s">>))

FromMatch(chars, jsonMatch) ==
  IF ~jsonMatch.ok THEN Returns(Tables(<<>>))
  ELSE FromJson(JSONparse(Group(chars, jsonMatch, 1)))

\* lines 244-254.  A responseText that is no string has no match method,
\* and the catch of line 255 takes that TypeError like every other error
FromResponseText(responseText) ==
  IF responseText.threw \/ responseText.value.kind # "string"
    THEN Returns(Tables(<<>>))
  ELSE FromMatch(responseText.value.chars,
                 match(responseText.value.chars, jsonRe))

\* lines 199-259; oracle is what generateContent comes to for the request
\* made: an error thrown, or the response it resolves to
extractFromImage(apiKey, oracle) ==
  IF ~apiKey
    THEN Returns(TablesAndText(<<>>,
           <<"G","e","m","i","n","i"," ","A","P","I"," ","k","e","y"," ","n","o","t"," ","c","o","n","f","i","g","u","r","e","d"," ","f","o","r"," ","i","m","a","g","e"," ","p","r","o","c","e","s","s","i","n","g">>))
  ELSE IF oracle.threw THEN Returns(Tables(<<>>))
  ELSE FromResponseText(ResponseText(oracle.value))

(***************************************************************************)
(* The dispatcher (lines 34-51).  The bytes reach the spreadsheet parser,  *)
(* the PDF parser and the oracle unread, so what each of them comes to for *)
(* this call is part of the environment; the CSV extractor reads the bytes *)
(* itself.                                                                 *)
(***************************************************************************)
ExcelExtensions == {".xlsx", ".xls"}
ImageExtensions == {".png", ".jpg", ".jpeg"}

\* lines 36-46: the extractor that the extension selects
extractorOf(ext) ==
  IF ext \in ExcelExtensions THEN "extractFromExcel"
  ELSE IF ext = ".csv" THEN "extractFromCSV"
  ELSE IF ext = ".pdf" THEN "extractFromPDF"
  ELSE IF ext \in ImageExtensions THEN "extractFromImage"
  ELSE "none"

\* the result of the extractor named
Extracted(extractor, buffer, e) ==
  CASE extractor = "extractFromExcel" -> extractFromExcel(e.xlsx, e.legacy)
    [] extractor = "extractFromCSV"   -> extractFromCSV(buffer, e.legacy)
    [] extractor = "extractFromPDF"   -> extractFromPDF(e.pdf, e.legacy)
    [] extractor = "extractFromImage" -> extractFromImage(e.apiKey, e.oracle)
    [] extractor = "none"             -> Returns(Tables(<<>>))

\* lines 47-50: the catch of the dispatcher
Caught(outcome) == IF outcome.threw THEN Returns(Tables(<<>>)) ELSE outcome

\* lines 34-51
extractDataFromFile(buffer, ext, mimetype, e) ==
  Caught(Extracted(extractorOf(ext), buffer, e))

\* the file contents, extensions and mime types of the calls
SampleBuffers ==
  {<<>>,
   <<"F","i","r","s","t"," ","N","a","m","e",",","A","g","e","\r","\n","a","n","n",",","3","1","\n","b","o","b",",","\n",",","\n">>,
   <<"%","P","D","F","-","1",".","4"," ","\"","x","\"","\n">>}

SampleExtensions ==
  ExcelExtensions \cup ImageExtensions \cup {".csv", ".pdf", ".txt", ""}

SampleMimetypes == {"image/png", "application/pdf"}

\* what XLSX.read and sheet_to_json come to: an error, a workbook without
\* sheets, a sheet of one row, a sheet of three rows with an unset cell
XlsxOutcomes ==
  {Throws,
   Returns(<<>>),
   Returns(<<[sheetName |-> <<"S","h","e","e","t","1">>, jsonData |-> <<<<Str(<<"i","d">>)>>>>]>>),
   Returns(<<[sheetName |-> <<"M","y"," ","S","h","e","e","t">>,
              jsonData |-> <<<<Str(<<"F","i","r","s","t"," ","N","a","m","e">>), JsHole, Str(<<"A","g","e">>)>>,
                             <<Str(<<"a","n","n">>), JsHole, Num(31)>>,
                             <<>>>>]>>)}

\* what pdfParse comes to: an error, data without text, an empty text, a
\* text with a block of aligned lines
PdfOutcomes ==
  {Throws,
   Returns([text |-> JsUndefined]),
   Returns([text |-> EmptyStr]),
   Returns([text |-> Str(<<"R","e","p","o","r","t","\n","N","a","m","e"," "," ","A","g","e","\n","a","n","n"," "," ","3","1","\n","b","o","b"," "," ","4","0","\n">>)])}

\* the replies of the oracle
NoTablesReply ==
  <<"{","\"","t","a","b","l","e","s","\"",":"," ","[","]","}">>
TableReply ==
  <<"{","\"","t","a","b","l","e","s","\"",":","[","{","\"","n","a","m","e",
    "\"",":","\"","t","\"",",","\"","c","o","l","u","m","n","s","\"",":",
    "[","]",",","\"","r","o","w","s","\"",":","[","{","\"","a","\"",":","1",
    "}","]","}","]","}">>
FencedReply ==
  <<Backtick, Backtick, Backtick>> \o <<"j","s","o","n","\n">> \o TableReply
    \o <<"\n", Backtick, Backtick, Backtick>>
ProseReply ==
  <<"I"," ","c","a","n"," ","n","o","t"," ","s","e","e"," ","a"," ","t","a",
    "b","l","e"," ","i","n"," ","t","h","i","s"," ","i","m","a","g","e","."
    >>
BrokenReply ==
  <<"{","\"","t","a","b","l","e","s","\"",":"," ","[","}">>
OneTableReply ==
  <<"{","\"","t","a","b","l","e","s","\"",":"," ","{","\"","n","a","m","e",
    "\"",":"," ","\"","t","\"",","," ","\"","c","o","l","u","m","n","s",
    "\"",":"," ","[","]",","," ","\"","r","o","w","s","\"",":"," ","[","]",
    "}","}">>
NoMemberReply ==
  <<"H","e","r","e"," ","y","o","u"," ","g","o",":"," ","{","\"","n","o",
    "t","e","\"",":"," ","\"","n","o","t","h","i","n","g"," ","t","a","b",
    "u","l","a","r","\"","}">>

\* a reply with prose and braces after the object
BracedProseReply ==
  <<"F","o","u","n","d"," ","{","\"","t","a","b","l","e","s","\"",":","[",
    "{","\"","n","a","m","e","\"",":","\"","t","\"",",","\"","c","o","l",
    "u","m","n","s","\"",":","[","]",",","\"","r","o","w","s","\"",":","[",
    "]","}","]","}"," ","i","n"," ","{","i","m","g","}"
    >>
Response(text) == [text |-> text, response |-> JsUndefined]

\* what generateContent comes to: an error, or a response whose text is a
\* string, a method, or absent with or without an inner response
OracleOutcomes ==
  {Throws,
   Returns(Response(EmptyStr)),
   Returns(Response(JsUndefined)),
   Returns(Response(Str(ProseReply))),
   Returns(Response(Str(BracedProseReply))),
   Returns(Response(Str(BrokenReply))),
   Returns(Response(Str(NoTablesReply))),
   Returns(Response(Str(FencedReply))),
   Returns(Response(Str(OneTableReply))),
   Returns(Response(Str(NoMemberReply))),
   Returns(Response(Method(Throws))),
   Returns(Response(Method(Returns(JsUndefined)))),
   Returns(Response(Method(Returns(Str(NoTablesReply))))),
   Returns([text |-> JsUndefined,
            response |-> [text |-> Method(Returns(Str(FencedReply)))]])}

\* the environments of the calls: one of the parsers or the oracle behaves in
\* each of its ways while the others, which one call does not reach, fail
SampleEnvironments ==
  LET failing == [xlsx : {Throws}, pdf : {Throws}, oracle : {Throws},
                  apiKey : BOOLEAN, legacy : {{}, LegacyKinds}]
  IN UNION {{[e EXCEPT !.xlsx = o] : o \in XlsxOutcomes}
              \cup {[e EXCEPT !.pdf = o] : o \in PdfOutcomes}
              \cup {[e EXCEPT !.oracle = o] : o \in OracleOutcomes}
            : e \in failing}

InitExtract ==
  /\ call \in [op : {"extractDataFromFile"}, buffer : SampleBuffers,
               ext : SampleExtensions, mimetype : SampleMimetypes]
  /\ env \in SampleEnvironments
  /\ pc = "called"
  /\ ret = <<>>

Extract ==
  /\ pc = "called"
  /\ call.op = "extractDataFromFile"
  /\ ret' = extractDataFromFile(call.buffer, call.ext, call.mimetype, env)
  /\ pc' = "returned"
  /\ UNCHANGED <<call, env>>

NextExtract == Extract

SpecExtract == InitExtract /\ [][NextExtract]_vars

ExtractReturned == call.op = "extractDataFromFile" /\ pc = "returned"

\* the reply that the image extractor reads, when there is one
ReplyOf(oracle) ==
  IF oracle.threw THEN Throws ELSE ResponseText(oracle.value)

\* the oracle failed: it threw, gave no reply or an empty one, or a reply
\* in which no JSON object can be parsed
OracleFailed(oracle) ==
  LET reply == ReplyOf(oracle)
  IN \/ reply.threw
     \/ reply.value.kind # "string"
     \/ reply.value.chars = <<>>
     \/ \A i \in 1..Len(reply.value.chars) :
          \A j \in i..Len(reply.value.chars) :
            \/ reply.value.chars[i] # "{"
            \/ JSONparse(SubSeq(reply.value.chars, i, j)).threw

\* the call failed in the extractor it selected
Failed ==
  \/ call.ext \in ExcelExtensions /\ env.xlsx.threw
  \/ call.ext = ".pdf" /\ (env.pdf.threw \/ env.pdf.value.text.kind # "string")
  \/ call.ext \in ImageExtensions /\ env.apiKey /\ OracleFailed(env.oracle)

Unrecognized ==
  call.ext \notin ExcelExtensions \cup ImageExtensions \cup {".csv", ".pdf"}

\* {tables: ExtractedTable[], textContent?: string}: the tables are a list
IsExtractionResult(v) ==
  /\ v.tables.kind = "array"
  /\ v.textContent.kind \in {"string", "undefined"}

\* C10 (first part): extractDataFromFile does not throw, whatever the
\* bytes, the extension, the mime type and the behaviour of the parsers and
\* of the oracle
C10_NeverThrows == ExtractReturned => ~ret.threw

\* C10 (second part): a failure of the selected extractor and an
\* unrecognized extension give an empty list of tables
C10_FailureGivesNoTables ==
  (ExtractReturned /\ (Failed \/ Unrecognized)) =>
    ret.value.tables = JsArray(<<>>)

\* C10 (third part): the extractor is selected by the extension only; the
\* result is that of the extractor of the extension, with its errors
\* caught, whatever the mime type
C10_SelectionByExtension ==
  ExtractReturned =>
    /\ call.ext \in ExcelExtensions =>
         ret = Caught(extractFromExcel(env.xlsx, env.legacy))
    /\ call.ext = ".csv" =>
         ret = Caught(extractFromCSV(call.buffer, env.legacy))
    /\ call.ext = ".pdf" =>
         ret = Caught(extractFromPDF(env.pdf, env.legacy))
    /\ call.ext \in ImageExtensions =>
         ret = Caught(extractFromImage(env.apiKey, env.oracle))
    /\ Unrecognized => ret = Returns(Tables(<<>>))

\* C10: extractDataFromFile never throws and returns an ExtractionResult
\* for any bytes, extension, mime type and behaviour of the spreadsheet
\* parser, the PDF parser and the oracle; a failure and an unrecognized
\* extension give an empty list of tables; the extractor is selected by
\* the extension only
C10_ExtractionContract ==
  /\ C10_NeverThrows
  /\ ExtractReturned => IsExtractionResult(ret.value)
  /\ C10_FailureGivesNoTables
  /\ C10_SelectionByExtension


(***************************************************************************)
(* The tabular extractors called on sheets, files and texts made of small  *)
(* sets of header cells, data rows and lines.                              *)
(***************************************************************************)
MaxHeaders == 2
MaxRows    == 2
MaxLines   == 4

SeqsUpTo(S, n) == UNION {[1..k -> S] : k \in 0..n}

\* the pieces joined, sep between two neighbours
RECURSIVE Join(_, _)
Join(pieces, sep) ==
  IF Len(pieces) = 0 THEN <<>>
  ELSE IF Len(pieces) = 1 THEN pieces[1]
  ELSE pieces[1] \o sep \o Join(Tail(pieces), sep)

\* header cells: two that differ in case only, a blank one, one with a
\* space, one with a hyphen
HeaderTexts ==
  {<<"i","d">>, <<"I","D">>, <<>>, <<"F","i","r","s","t"," ","N","a","m","e">>, <<"E","-","m","a","i","l">>}

\* data rows as texts: none, short of the header, blank, full, too long
RowTexts ==
  {<<>>, <<<<"1">>>>, <<<<>>, <<>>>>, <<<<"a","n","n">>, <<"x">>>>, <<<<"b","o","b">>, <<>>, <<"2">>>>}

CsvLine(cells) == Join(cells, <<",">>)

\* the file of a header line and data lines
CsvFile(headers, rows) ==
  Join(<<CsvLine(headers)>> \o Map(rows, CsvLine), <<"\n">>)

\* a cell of a sheet: a blank or missing one is left unset by sheet_to_json
SheetCell(text) ==
  IF text = <<>> THEN JsHole
  ELSE IF StringIsNumber(text) /\ AllDigits(text) THEN Num(NatOf(text))
  ELSE Str(text)

\* the cells up to the last one that is set
RECURSIVE UpToLastSet(_)
UpToLastSet(cells) ==
  IF Len(cells) > 0 /\ cells[Len(cells)] = <<>>
    THEN UpToLastSet(SubSeq(cells, 1, Len(cells) - 1))
    ELSE cells

\* a row of sheet_to_json: as long as its last set cell requires
SheetRow(cells) == Map(UpToLastSet(cells), SheetCell)

\* the rows of a sheet of a header row and data rows
SheetRows(headers, rows) == <<SheetRow(headers)>> \o Map(rows, SheetRow)

\* lines of a text: five row candidates, one of them with two cells that
\* differ in case only, a line of prose, a blank line
LineTexts ==
  {<<"N","a","m","e"," "," ","A","g","e">>, <<"i","d"," "," ","I","D">>, <<"a","n","n"," "," ","3","1">>, <<"b","o","b","\t","4","0"," "," ","x">>, <<" "," ","a"," "," "," ","b","\r">>, <<"T","o","t","a","l",":"," ","2">>, <<>>}

\* the text of the lines
Text(lines) == Join(lines, <<"\n">>)

InitTables ==
  /\ call \in [op : {"extractFromExcel", "extractFromCSV"},
               headers : SeqsUpTo(HeaderTexts, MaxHeaders),
               rows : SeqsUpTo(RowTexts, MaxRows)]
          \cup [op : {"extractTablesFromText"},
                lines : SeqsUpTo(LineTexts, MaxLines)]
  /\ env \in [legacy : {{}, LegacyKinds}]
  /\ pc = "called"
  /\ ret = <<>>

SheetName == <<"M","y"," ","S","h","e","e","t">>

\* a workbook of the one sheet of the call
ExtractExcel ==
  /\ pc = "called"
  /\ call.op = "extractFromExcel"
  /\ ret' = extractFromExcel(
              Returns(<<[sheetName |-> SheetName,
                         jsonData |-> SheetRows(call.headers, call.rows)]>>),
              env.legacy)
  /\ pc' = "returned"
  /\ UNCHANGED <<call, env>>

ExtractCSV ==
  /\ pc = "called"
  /\ call.op = "extractFromCSV"
  /\ ret' = extractFromCSV(CsvFile(call.headers, call.rows), env.legacy)
  /\ pc' = "returned"
  /\ UNCHANGED <<call, env>>

ExtractText ==
  /\ pc = "called"
  /\ call.op = "extractTablesFromText"
  /\ ret' = Returns(Tables(extractTablesFromText(Text(call.lines), env.legacy)))
  /\ pc' = "returned"
  /\ UNCHANGED <<call, env>>

NextTables == ExtractExcel \/ ExtractCSV \/ ExtractText

SpecTables == InitTables /\ [][NextTables]_vars

TablesReturned ==
  /\ pc = "returned"
  /\ call.op \in {"extractFromExcel", "extractFromCSV", "extractTablesFromText"}

\* the tables of the result
TablesOf(r) == r.value.tables.items


\* the name of a column; an unset entry of the columns list has none
NameOf(column) == IF column = JsHole THEN HoleName ELSE column.name

NamesOfColumns(t) == {NameOf(t.columns[k]) : k \in DOMAIN t.columns}

\* C11: in every table of the spreadsheet, CSV and text extractors, for any
\* header row, duplicate and blank header cells included, there is one column
\* per distinct header cell, the column names are pairwise distinct, and every
\* row maps exactly the column names, a missing cell to null.
C11_TableShape ==
  TablesReturned =>
    \A n \in DOMAIN TablesOf(ret) :
      LET t == TablesOf(ret)[n]
      IN /\ Len(t.columns) = Cardinality(NamesOfColumns(t))
         /\ \A i, j \in DOMAIN t.columns :
              i # j => NameOf(t.columns[i]) # NameOf(t.columns[j])
         /\ \A r \in DOMAIN t.rows :
              /\ DOMAIN t.rows[r] = NamesOfColumns(t)
              /\ \A h \in DOMAIN t.rows[r] : t.rows[r][h] # JsUndefined


\* the rows of the sheet or file of the call, the header row first; a blank
\* line of a CSV file is no row
FileRows ==
  IF call.op = "extractFromCSV"
    THEN SelectSeq(<<call.headers>> \o call.rows,
                   LAMBDA r : Len(trim(CsvLine(r))) > 0)
    ELSE <<call.headers>> \o call.rows

\* the cell of a source row under the idx-th header cell, as a value
SourceCell(r, idx) ==
  IF idx > Len(r) \/ r[idx] = <<>> THEN JsNull
  ELSE IF call.op = "extractFromCSV" THEN Str(r[idx])
  ELSE SheetCell(r[idx])

\* the data rows with a non-empty cell under one of the header cells
KeptRows ==
  SelectSeq(Tail(FileRows),
            LAMBDA r : \E idx \in 1..Len(FileRows[1]) :
                         SourceCell(r, idx) # JsNull)

\* C12: a sheet or CSV file of a header row and n data rows gives one table
\* holding, in source order, one row for each data row with a non-empty
\* cell and none for the data rows empty in all columns; fewer than 2 rows
\* give no table; the header First Name becomes the column first_name.
C12_RowsOfTable ==
  (pc = "returned" /\ call.op \in {"extractFromExcel", "extractFromCSV"}) =>
    IF Len(FileRows) < 2 THEN TablesOf(ret) = <<>>
    ELSE
      /\ Len(TablesOf(ret)) = 1
      /\ LET t == TablesOf(ret)[1]
         IN /\ Len(t.rows) = Len(KeptRows)
            /\ \A j \in DOMAIN t.rows : \A idx \in DOMAIN t.columns :
                 /\ NameOf(t.columns[idx]) \in DOMAIN t.rows[j]
                 /\ t.rows[j][NameOf(t.columns[idx])]
                      = SourceCell(KeptRows[j], idx)
            /\ \A idx \in DOMAIN FileRows[1] :
                 FileRows[1][idx] = <<"F","i","r","s","t"," ","N","a","m","e">>
                   => /\ idx \in DOMAIN t.columns
                      /\ NameOf(t.columns[idx]) = <<"f","i","r","s","t","_","n","a","m","e">>


\* a row candidate: a line of 2 or more cells
IsCandidate(line) == Len(CellsOf(trim(line))) >= 2

\* the blocks of the lines: the maximal runs of consecutive row candidates,
\* each as the pair of its first and last position
Blocks(lines) ==
  {b \in (1..Len(lines)) \X (1..Len(lines)) :
     /\ b[1] <= b[2]
     /\ \A k \in b[1]..b[2] : IsCandidate(lines[k])
     /\ b[1] > 1 => ~IsCandidate(lines[b[1] - 1])
     /\ b[2] < Len(lines) => ~IsCandidate(lines[b[2] + 1])}

TheBlock(lines) == CHOOSE b \in Blocks(lines) : TRUE

\* the cell of a line under the idx-th header, null when missing
LineCell(line, idx) ==
  IF idx <= Len(CellsOf(trim(line))) THEN Str(CellsOf(trim(line))[idx])
  ELSE JsNull

\* C13: a text whose row candidates form one block of exactly 3 consecutive
\* lines gives exactly one table, with one column per cell of the first line
\* and the other 2 lines as its data rows (a column name that occurs twice
\* holds the later cell); a text whose only block is a single line gives no
\* table.
C13_BlockOfThree ==
  (pc = "returned" /\ call.op = "extractTablesFromText"
     /\ Cardinality(Blocks(call.lines)) = 1) =>
    LET b == TheBlock(call.lines)
    IN /\ b[2] = b[1] =>  TablesOf(ret) = <<>>
       /\ b[2] = b[1] + 2 =>
            /\ Len(TablesOf(ret)) = 1
            /\ LET t == TablesOf(ret)[1]
               IN /\ Len(t.columns) = Len(CellsOf(trim(call.lines[b[1]])))
                  /\ Len(t.rows) = 2
                  /\ \A r \in 1..2 : \A idx \in DOMAIN t.columns :
                       (\A j \in DOMAIN t.columns :
                          j > idx => t.columns[j].name # t.columns[idx].name)
                         => t.rows[r][t.columns[idx].name]
                              = LineCell(call.lines[b[1] + r], idx)

C13_Witness ==
  /\ pc = "returned"
  /\ call.op = "extractTablesFromText"
  /\ Blocks(call.lines) = {<<2, 4>>}
  /\ Len(TablesOf(ret)) = 1
  /\ Len(TablesOf(ret)[1].rows) = 2


(***************************************************************************)
(* The store: MemStorage and FileStorage.  env is the storage object: its  *)
(* six maps in insertion order, the JSON files of the data directory, the  *)
(* number of ids drawn from randomUUID and the clock; call is the last     *)
(* call made on it and ret the outcome of that call.                       *)
(***************************************************************************)
MaxCalls == 2

StorageKinds == {"MemStorage", "FileStorage"}
MapNames == {"sessions", "messages", "databases", "tables", "rows", "documents"}

\* the values of randomUUID, in the order drawn
Uuids == <<"id1", "id2", "id3", "id4", "id5", "id6", "id7", "id8", "id9", "id10",
          "id11", "id12", "id13", "id14", "id15", "id16", "id17", "id18",
          "id19", "id20", "id21", "id22", "id23", "id24">>

\* new Date() at clock tick t, and its JSON form
DateAt(t) == [kind |-> "date", time |-> t]
toISOString(d) == [kind |-> "string", time |-> d.time]

ThrowsError(message) == [threw |-> TRUE, value |-> message]

\* Map.prototype.has, get, set and delete on a map kept as the list of its
\* values in insertion order
Has(map, id) == \E k \in DOMAIN map : map[k].id = id
Get(map, id) == map[CHOOSE k \in DOMAIN map : map[k].id = id]
Set(map, entry) ==
  IF Has(map, entry.id)
    THEN [k \in DOMAIN map |-> IF map[k].id = entry.id THEN entry ELSE map[k]]
    ELSE Append(map, entry)
Delete(map, id) == SelectSeq(map, LAMBDA e : e.id # id)

IdsOf(map) == {map[k].id : k \in DOMAIN map}

\* JSON.stringify of an entry: a Date becomes its ISO string
EntryJson(e) ==
  [f \in DOMAIN e |->
     IF f \in {"createdAt", "updatedAt"} THEN toISOString(e[f]) ELSE e[f]]

\* JSON.parse of JSON.stringify of Object.fromEntries of a map, as the list
\* of Object.entries
MapJson(map) == [k \in DOMAIN map |-> EntryJson(map[k])]

\* Saved writing one file only, whatever the number of maps that changed
SavedOne(e, names) ==
  IF e.kind = "FileStorage"
    THEN [e EXCEPT !.files =
            [n \in MapNames |->
               IF names # {} /\ n = (CHOOSE m \in names : TRUE)
                 THEN MapJson(e[n]) ELSE @[n]]]
    ELSE e

\* saveJson of the named maps; MemStorage has no files
Saved(e, names) ==
  IF e.kind = "FileStorage"
    THEN [e EXCEPT !.files =
            [n \in MapNames |-> IF n \in names THEN MapJson(e[n]) ELSE @[n]]]
    ELSE e

EmptyStore(kind) ==
  [kind |-> kind, sessions |-> <<>>, messages |-> <<>>, databases |-> <<>>,
   tables |-> <<>>, rows |-> <<>>, documents |-> <<>>,
   files |-> [n \in MapNames |-> <<>>], uuids |-> 0, now |-> 0]

KeyColumn  == [name |-> "id", type |-> "integer", isPrimaryKey |-> TRUE]
NameColumn == [name |-> "name", type |-> "text", isPrimaryKey |-> FALSE]

\* a store after createChatSession, addChatMessage, createDatabase,
\* createTable, insertRow and uploadDocument within one clock tick
SampleStore(kind) ==
  Saved([kind |-> kind,
         sessions |-> <<[id |-> "id1", title |-> "chat",
                         createdAt |-> DateAt(0), updatedAt |-> DateAt(0)]>>,
         messages |-> <<[id |-> "id2", sessionId |-> "id1", content |-> "hi",
                         role |-> "user", createdAt |-> DateAt(0)]>>,
         databases |-> <<[id |-> "id3", name |-> "default",
                          description |-> "Default database for tables",
                          createdAt |-> DateAt(0)]>>,
         tables |-> <<[id |-> "id4", databaseId |-> "id3", name |-> "students",
                       columns |-> <<KeyColumn, NameColumn>>,
                       positions |-> "{}", createdAt |-> DateAt(0)]>>,
         rows |-> <<[id |-> "id5", tableId |-> "id4",
                     data |-> [id |-> "1", name |-> "ann"],
                     createdAt |-> DateAt(0)]>>,
         documents |-> <<[id |-> "id6", filename |-> "a.csv", content |-> "id",
                          extractedTables |-> "[]", createdAt |-> DateAt(0)]>>,
         files |-> [n \in MapNames |-> <<>>], uuids |-> 6, now |-> 0],
        MapNames)

InitStore ==
  /\ env \in {EmptyStore(kind) : kind \in StorageKinds}
             \cup {SampleStore(kind) : kind \in StorageKinds}
  /\ call = [op |-> "constructor"]
  /\ pc = "returned"
  /\ ret = Returns("undefined")

\* the ids a caller may pass for an entry of a map: those of its entries
\* and one that no entry has
IdArgs(map) == IdsOf(map) \cup {"missing"}

\* row.data[name] and the spread of two data objects
DataAt(data, name) == IF name \in DOMAIN data THEN data[name] ELSE "undefined"
Spread(a, b) ==
  [k \in DOMAIN a \cup DOMAIN b |-> IF k \in DOMAIN b THEN b[k] ELSE a[k]]

RowData == {[id |-> "1"], [id |-> "2"], [name |-> "bob"]}

\* the body of a call: the clock has moved on by one tick when it runs
CanCall == env.now < MaxCalls
Now == env.now + 1

\* the state after a call that drew drawn ids
Done(e, drawn) == [e EXCEPT !.now = Now, !.uuids = @ + drawn]

PrimaryKeyOf(table) ==
  LET keys == SelectSeq(table.columns, LAMBDA c : c.isPrimaryKey)
  IN IF Len(keys) > 0 THEN keys[1].name ELSE "undefined"

\* the rows of a table, in the order of the map
RowsOf(e, tableId) == SelectSeq(e.rows, LAMBDA r : r.tableId = tableId)

\* lines 349-373 (MemStorage 254-278)
InsertRow ==
  /\ CanCall
  /\ \E tableId \in IdArgs(env.tables), data \in RowData :
       /\ call' = [op |-> "insertRow", tableId |-> tableId, data |-> data]
       /\ LET key == IF Has(env.tables, tableId)
                       THEN PrimaryKeyOf(Get(env.tables, tableId))
                       ELSE "undefined"
              duplicate ==
                /\ key # "undefined"
                /\ \E r \in DOMAIN RowsOf(env, tableId) :
                     DataAt(RowsOf(env, tableId)[r].data, key) = DataAt(data, key)
              id == Uuids[env.uuids + 1]
              tableRow == [id |-> id, tableId |-> tableId, data |-> data,
                           createdAt |-> DateAt(Now)]
          IN IF duplicate
               THEN /\ env' = Done(env, 0)
                    /\ ret' = ThrowsError("Primary key violation")
               ELSE /\ env' = Saved(Done([env EXCEPT !.rows = Set(@, tableRow)], 1),
                                    {"rows"})
                    /\ ret' = Returns(tableRow)
  /\ UNCHANGED pc

\* lines 379-382 (MemStorage 284-286)
DeleteRow ==
  /\ CanCall
  /\ \E id \in IdArgs(env.rows) :
       /\ call' = [op |-> "deleteRow", id |-> id]
       /\ env' = Saved(Done([env EXCEPT !.rows = Delete(@, id)], 0), {"rows"})
       /\ ret' = Returns("undefined")
  /\ UNCHANGED pc

\* lines 384-391 (MemStorage 288-294)
UpdateRow ==
  /\ CanCall
  /\ \E id \in IdArgs(env.rows), data \in RowData :
       /\ call' = [op |-> "updateRow", id |-> id, data |-> data]
       /\ IF ~Has(env.rows, id)
            THEN /\ env' = Done(env, 0)
                 /\ ret' = ThrowsError("Row not found")
            ELSE LET row == [Get(env.rows, id) EXCEPT !.data = Spread(@, data)]
                 IN /\ env' = Saved(Done([env EXCEPT !.rows = Set(@, row)], 0),
                                    {"rows"})
                    /\ ret' = Returns(row)
  /\ UNCHANGED pc


\* a call that returns out, having left the maps of e, drawn ids and saved
\* the named maps
Finish(c, e, drawn, names, out) ==
  /\ call' = c
  /\ env' = Saved(Done(e, drawn), names)
  /\ ret' = out
  /\ UNCHANGED pc

\* a call that throws before it changes anything
Fail(c, message) ==
  /\ call' = c
  /\ env' = Done(env, 0)
  /\ ret' = ThrowsError(message)
  /\ UNCHANGED pc

\* String.prototype.toLowerCase on the names of databases and tables
Names == {"default", "Default", "students", "Students"}
LowerName(name) ==
  CASE name \in {"default", "Default"} -> "default"
    [] name \in {"students", "Students"} -> "students"
    [] OTHER -> name

\* x || null
OrNull(x) == IF x \in {"undefined", "null", ""} THEN "null" ELSE x

\* lines 101-112
CreateChatSession ==
  /\ CanCall
  /\ LET chatSession == [id |-> Uuids[env.uuids + 1], title |-> "chat",
                         createdAt |-> DateAt(Now), updatedAt |-> DateAt(Now)]
     IN Finish([op |-> "createChatSession", title |-> "chat"],
               [env EXCEPT !.sessions = Set(@, chatSession)], 1, {"sessions"},
               Returns(chatSession))

\* lines 124-132
UpdateChatSessionTitle ==
  /\ CanCall
  /\ \E id \in IdArgs(env.sessions) :
       LET c == [op |-> "updateChatSessionTitle", id |-> id, title |-> "renamed"]
       IN IF ~Has(env.sessions, id) THEN Fail(c, "Session not found")
          ELSE LET session == [Get(env.sessions, id) EXCEPT
                                 !.title = "renamed", !.updatedAt = DateAt(Now)]
               IN Finish(c, [env EXCEPT !.sessions = Set(@, session)], 0,
                         {"sessions"}, Returns(session))

\* lines 134-141
DeleteChatSession ==
  /\ CanCall
  /\ \E id \in IdArgs(env.sessions) :
       Finish([op |-> "deleteChatSession", id |-> id],
              [env EXCEPT
                 !.sessions = Delete(@, id),
                 !.messages = SelectSeq(@, LAMBDA m : m.sessionId # id)],
              0, {"sessions", "messages"}, Returns("undefined"))

\* lines 143-152
ClearChatHistory ==
  /\ CanCall
  /\ \E sessionId \in IdArgs(env.sessions) \cup {"undefined"} :
       Finish([op |-> "clearChatHistory", sessionId |-> sessionId],
              [env EXCEPT
                 !.messages =
                    IF sessionId # "undefined"
                      THEN SelectSeq(@, LAMBDA m : m.sessionId # sessionId)
                      ELSE <<>>],
              0, {"messages"}, Returns("undefined"))

\* lines 154-172; MemStorage.createDatabase has no check of the name
CreateDatabase ==
  /\ CanCall
  /\ \E name \in {"default", "Default"} :
       LET c  == [op |-> "createDatabase", name |-> name,
                  description |-> "undefined"]
           db == [id |-> Uuids[env.uuids + 1], name |-> name,
                  description |-> OrNull("undefined"),
                  createdAt |-> DateAt(Now)]
       IN IF /\ env.kind = "FileStorage"
             /\ \E k \in DOMAIN env.databases :
                  LowerName(env.databases[k].name) = LowerName(name)
            THEN Fail(c, "Database already exists")
            ELSE Finish(c, [env EXCEPT !.databases = Set(@, db)], 1,
                        {"databases"}, Returns(db))

\* WithoutDatabase without the removal of the rows
WithoutDatabaseKeepingRows(e, id) ==
  [e EXCEPT !.databases = Delete(@, id),
            !.tables = SelectSeq(@, LAMBDA t : t.databaseId # id)]

\* the tables of a database and the rows of those tables go with it
WithoutDatabase(e, id) ==
  LET gone == {e.tables[k].id : k \in {j \in DOMAIN e.tables :
                                         e.tables[j].databaseId = id}}
  IN [e EXCEPT !.databases = Delete(@, id),
               !.tables = SelectSeq(@, LAMBDA t : t.id \notin gone),
               !.rows = SelectSeq(@, LAMBDA r : r.tableId \notin gone)]

\* lines 188-201
DeleteDatabase ==
  /\ CanCall
  /\ \E id \in IdArgs(env.databases) :
       Finish([op |-> "deleteDatabase", id |-> id], WithoutDatabase(env, id), 0,
              {"databases", "tables", "rows"}, Returns("undefined"))

\* lines 203-211, of FileStorage only
GetOrCreateDefaultDatabase ==
  /\ CanCall
  /\ env.kind = "FileStorage"
  /\ LET c == [op |-> "getOrCreateDefaultDatabase"]
         found == SelectSeq(env.databases,
                            LAMBDA d : LowerName(d.name) = "default")
         db == [id |-> Uuids[env.uuids + 1], name |-> "default",
                description |-> "Default database for tables",
                createdAt |-> DateAt(Now)]
     IN IF Len(found) > 0 THEN Finish(c, env, 0, {}, Returns(found[1]))
        ELSE Finish(c, [env EXCEPT !.databases = Set(@, db)], 1,
                    {"databases"}, Returns(db))

\* lines 213-235
AddChatMessage ==
  /\ CanCall
  /\ \E sessionId \in IdArgs(env.sessions) \cup {"null"},
        role \in {"user", "assistant"} :
       LET chatMessage == [id |-> Uuids[env.uuids + 1],
                           sessionId |-> OrNull(sessionId), content |-> "hi",
                           role |-> role, createdAt |-> DateAt(Now)]
           added == [env EXCEPT !.messages = Set(@, chatMessage)]
           c == [op |-> "addChatMessage", sessionId |-> sessionId,
                 role |-> role]
       IN IF OrNull(sessionId) # "null" /\ Has(env.sessions, sessionId)
            THEN Finish(c,
                   [added EXCEPT
                      !.sessions =
                         Set(@, [Get(env.sessions, sessionId) EXCEPT
                                   !.updatedAt = DateAt(Now)])],
                   1, {"messages", "sessions"}, Returns(chatMessage))
            ELSE Finish(c, added, 1, {"messages"}, Returns(chatMessage))

ColumnArgs == {<<KeyColumn, NameColumn>>, <<NameColumn>>}

\* lines 247-268; MemStorage.createTable has no check of the name
CreateTable ==
  /\ CanCall
  /\ \E databaseId \in IdArgs(env.databases) \cup {"null", "undefined"},
        name \in {"students", "Students"}, columns \in ColumnArgs :
       LET c == [op |-> "createTable", databaseId |-> databaseId,
                 name |-> name, columns |-> columns]
           dbTable == [id |-> Uuids[env.uuids + 1],
                       databaseId |-> OrNull(databaseId), name |-> name,
                       columns |-> columns, positions |-> "{}",
                       createdAt |-> DateAt(Now)]
       IN IF /\ env.kind = "FileStorage"
             /\ \E k \in DOMAIN env.tables :
                  /\ LowerName(env.tables[k].name) = LowerName(name)
                  /\ env.tables[k].databaseId = databaseId
            THEN Fail(c, "Table already exists in this database")
            ELSE Finish(c, [env EXCEPT !.tables = Set(@, dbTable)], 1,
                        {"tables"}, Returns(dbTable))

\* a call that replaces a table by Changed(table), or throws when there is
\* no table of the id
OnTable(c, id, Changed(_)) ==
  IF ~Has(env.tables, id) THEN Fail(c, "Table not found")
  ELSE LET table == Changed(Get(env.tables, id))
       IN Finish(c, [env EXCEPT !.tables = Set(@, table)], 0, {"tables"},
                 Returns(table))

\* lines 292-299
UpdateTable ==
  /\ CanCall
  /\ \E id \in IdArgs(env.tables), columns \in ColumnArgs :
       OnTable([op |-> "updateTable", id |-> id, columns |-> columns], id,
               LAMBDA t : [t EXCEPT !.columns = columns])

\* lines 301-308
UpdateTablePositions ==
  /\ CanCall
  /\ \E id \in IdArgs(env.tables) :
       OnTable([op |-> "updateTablePositions", id |-> id, positions |-> "{x}"],
               id, LAMBDA t : [t EXCEPT !.positions = "{x}"])

\* lines 310-318
AddColumn ==
  /\ CanCall
  /\ \E tableId \in IdArgs(env.tables), column \in {KeyColumn, NameColumn} :
       OnTable([op |-> "addColumn", tableId |-> tableId, column |-> column],
               tableId, LAMBDA t : [t EXCEPT !.columns = Append(@, column)])

\* Object.assign(col, updates) on the first column of the name
Assigned(columns, columnName, isPrimaryKey) ==
  LET first == CHOOSE k \in DOMAIN columns :
                 /\ columns[k].name = columnName
                 /\ \A j \in 1..(k - 1) : columns[j].name # columnName
  IN [columns EXCEPT ![first].isPrimaryKey = isPrimaryKey]

\* lines 320-329
UpdateColumn ==
  /\ CanCall
  /\ \E tableId \in IdArgs(env.tables), columnName \in {"id", "name"},
        isPrimaryKey \in BOOLEAN :
       LET c == [op |-> "updateColumn", tableId |-> tableId,
                 columnName |-> columnName, isPrimaryKey |-> isPrimaryKey]
       IN IF /\ Has(env.tables, tableId)
             /\ \A k \in DOMAIN Get(env.tables, tableId).columns :
                  Get(env.tables, tableId).columns[k].name # columnName
            THEN Fail(c, "Column not found")
            ELSE OnTable(c, tableId,
                         LAMBDA t : [t EXCEPT !.columns =
                                       Assigned(@, columnName, isPrimaryKey)])

\* lines 331-338
RemoveColumn ==
  /\ CanCall
  /\ \E tableId \in IdArgs(env.tables), columnName \in {"id", "name"} :
       OnTable([op |-> "removeColumn", tableId |-> tableId,
                columnName |-> columnName], tableId,
               LAMBDA t : [t EXCEPT !.columns =
                             SelectSeq(@, LAMBDA col : col.name # columnName)])

\* lines 340-347
DeleteTable ==
  /\ CanCall
  /\ \E id \in IdArgs(env.tables) :
       Finish([op |-> "deleteTable", id |-> id],
              [env EXCEPT !.tables = Delete(@, id),
                          !.rows = SelectSeq(@, LAMBDA r : r.tableId # id)],
              0, {"tables", "rows"}, Returns("undefined"))

\* lines 398-410
UploadDocument ==
  /\ CanCall
  /\ LET document == [id |-> Uuids[env.uuids + 1], filename |-> "a.csv",
                      content |-> "id", extractedTables |-> "[]",
                      createdAt |-> DateAt(Now)]
     IN Finish([op |-> "uploadDocument", filename |-> "a.csv"],
               [env EXCEPT !.documents = Set(@, document)], 1, {"documents"},
               Returns(document))

\* lines 60-74: the process starts again and the constructor of FileStorage
\* loads the maps from the files
Restart ==
  /\ env.kind = "FileStorage"
  /\ call' = [op |-> "constructor"]
  /\ env' = [env EXCEPT !.sessions = env.files["sessions"],
                        !.messages = env.files["messages"],
                        !.databases = env.files["databases"],
                        !.tables = env.files["tables"],
                        !.rows = env.files["rows"],
                        !.documents = env.files["documents"]]
  /\ ret' = Returns("undefined")
  /\ UNCHANGED pc

NextStore ==
  \/ CreateChatSession \/ UpdateChatSessionTitle \/ DeleteChatSession
  \/ ClearChatHistory \/ AddChatMessage
  \/ CreateDatabase \/ DeleteDatabase \/ GetOrCreateDefaultDatabase
  \/ CreateTable \/ UpdateTable \/ UpdateTablePositions
  \/ AddColumn \/ UpdateColumn \/ RemoveColumn \/ DeleteTable
  \/ InsertRow \/ DeleteRow \/ UpdateRow
  \/ UploadDocument
  \/ Restart

SpecStore == InitStore /\ [][NextStore]_vars


\* the calls that insert, update and delete rows, on a store that holds a
\* table with a primary-key column or none
NextRows == InsertRow \/ UpdateRow \/ DeleteRow

SpecRows == InitStore /\ [][NextRows]_vars

\* C14: after any sequence of insertRow, updateRow and deleteRow, in
\* MemStorage and in FileStorage, no two rows of a table with a primary-key
\* column hold the same value in that column.
C14_PrimaryKeyUnique ==
  \A t \in DOMAIN env.tables :
    LET key  == PrimaryKeyOf(env.tables[t])
        rows == RowsOf(env, env.tables[t].id)
    IN key # "undefined" =>
         \A i, j \in DOMAIN rows :
           i # j => DataAt(rows[i].data, key) # DataAt(rows[j].data, key)


(***************************************************************************)
(* generateChatResponse (lines 390-422).  action is a string; details is   *)
(* undefined or the record of its members; result is undefined or the      *)
(* record of its table and rows.  The four symbols that open the replies   *)
(* are kept as one character each.                                         *)
(***************************************************************************)
Clipboard == "clipboard"
CheckMark == "check mark"
BarChart  == "bar chart"
CrossMark == "cross mark"

\* Array.prototype.join: null and undefined elements give the empty text
JoinValues(values, sep) ==
  Join([k \in DOMAIN values |->
          IF values[k] \in {JsNull, JsUndefined} THEN <<>>
          ELSE String(values[k])], sep)

\* line 406: String(row.data?.[c.name] || "")
CellText(row, name) ==
  LET v == IF row.data \in {JsUndefined, JsNull} THEN JsUndefined
           ELSE Member(row.data, name)
  IN IF Falsy(v) THEN <<>> ELSE String(v)

\* RowText with the cells joined by a comma
RowTextComma(row, cols) ==
  Join([k \in DOMAIN cols |-> CellText(row, cols[k].name)], <<",", " ">>)

\* line 406: the cells of a row under the columns
RowText(row, cols) ==
  Join([k \in DOMAIN cols |-> CellText(row, cols[k].name)], <<" ","|"," ">>)

\* lines 392-408
ShowTableText(result) ==
  IF Falsy(result.table) THEN <<CrossMark>> \o <<" ","T","a","b","l","e"," ","n","o","t"," ","f","o","u","n","d">>
  ELSE
    LET rows == IF Falsy(result.rows) THEN <<>> ELSE result.rows.items
        cols == IF Falsy(result.table.columns) THEN <<>>
                ELSE result.table.columns.items
        header    == Join([k \in DOMAIN cols |-> cols[k].name], <<" ","|"," ">>)
        separator == Join([k \in DOMAIN cols |-> <<"-","-","-">>], <<"-","+","-">>)
        tableStr  == <<Clipboard>> \o <<" ","T","A","B","L","E",":"," ">> \o result.table.name
                       \o <<"\n", "\n">> \o header \o <<"\n">> \o separator
                       \o <<"\n">>
    IN IF Len(rows) = 0 THEN tableStr \o <<"(","n","o"," ","r","o","w","s",")">>
       ELSE tableStr \o Join([r \in DOMAIN rows |-> RowText(rows[r], cols)],
                             <<"\n">>)

\* a member of details inside a template literal
Template(v) == String(v)

\* line 412: the columns of details as name(type), undefined without columns
ColumnsText(columns) ==
  IF columns \in {JsUndefined, JsNull} THEN Template(JsUndefined)
  ELSE Join([k \in DOMAIN columns.items |->
               columns.items[k].name \o <<"(">> \o columns.items[k].type
                 \o <<")">>], <<","," ">>)

\* line 414: the values of details, undefined without values
ValuesText(values) ==
  IF values \in {JsUndefined, JsNull} THEN Template(JsUndefined)
  ELSE JoinValues(values.items, <<","," ">>)

\* details.message || otherwise
MessageOr(details, otherwise) ==
  IF Falsy(details.message) THEN otherwise ELSE String(details.message)

\* lines 411-421: the reply of the responses table, or the Done reply
ResponsesText(action, details) ==
  CASE action = "create_table" ->
         <<CheckMark>> \o <<" ","C","r","e","a","t","e","d"," ","t","a","b","l","e"," ","\"">> \o Template(details.name)
           \o <<"\""," ","w","i","t","h"," ","c","o","l","u","m","n","s",":"," ">> \o ColumnsText(details.columns)
    [] action = "delete_table" ->
         <<CheckMark>> \o <<" ","D","e","l","e","t","e","d"," ","t","a","b","l","e"," ","\"">> \o Template(details.tableName)
           \o <<"\"">>
    [] action = "insert_row" ->
         <<CheckMark>> \o <<" ","I","n","s","e","r","t","e","d"," ","r","o","w"," ","i","n","t","o"," ","\"">>
           \o Template(details.tableName) \o <<"\""," ","w","i","t","h"," ","v","a","l","u","e","s",":"," ">>
           \o ValuesText(details.values)
    [] action = "update_row" ->
         <<CheckMark>> \o <<" ","U","p","d","a","t","e","d"," ","r","o","w","s"," ","i","n"," ","\"">> \o Template(details.tableName)
           \o <<"\"">>
    [] action = "delete_row" ->
         <<CheckMark>> \o <<" ","D","e","l","e","t","e","d"," ","r","o","w","s"," ","f","r","o","m"," ","\"">>
           \o Template(details.tableName) \o <<"\"">>
    [] action = "show_tables" ->
         <<BarChart>> \o <<" ","S","h","o","w","i","n","g"," ","a","l","l"," ","t","a","b","l","e","s"," ","i","n"," ","d","a","t","a","b","a","s","e">>
    [] action = "query" ->
         <<"P","r","o","c","e","s","s","i","n","g",":"," ">> \o MessageOr(details, <<"y","o","u","r"," ","r","e","q","u","e","s","t">>)
    [] OTHER -> <<"D","o","n","e",":"," ">> \o MessageOr(details, <<"o","p","e","r","a","t","i","o","n"," ","c","o","m","p","l","e","t","e">>)

\* lines 390-422: the text returned, or the TypeError of reading a member of
\* details when details is undefined or null
generateChatResponse(action, details, result) ==
  IF action = "show_table" /\ ~Falsy(result)
    THEN Returns(Str(ShowTableText(result)))
  ELSE IF details \in {JsUndefined, JsNull} THEN Throws
  ELSE Returns(Str(ResponsesText(action, details)))


\* the arguments of the calls
TableObject(name, columnNames) ==
  [kind |-> "object", name |-> name,
   columns |-> JsArray([k \in DOMAIN columnNames |->
                          [name |-> columnNames[k], type |-> <<"t","e","x","t">>]])]

RowOf(data) == [kind |-> "object", data |-> data]

ResultOf(table, rows) == [kind |-> "object", table |-> table, rows |-> rows]

DetailsOf(name, tableName, columns, values, message) ==
  [kind |-> "object", name |-> name, tableName |-> tableName,
   columns |-> columns, values |-> values, message |-> message]

MaxShownRows == 2

SampleColumnNames == {<<>>, <<<<"i","d">>>>, <<<<"i","d">>, <<"n","a","m","e">>>>}

\* rows with a full, a partial, an empty-valued and no data object
SampleShownRows ==
  {RowOf(JsObject((<<"i","d">> :> Num(1)) @@ (<<"n","a","m","e">> :> Str(<<"a","n","n">>)))),
   RowOf(JsObject((<<"i","d">> :> Num(0)) @@ (<<"n","a","m","e">> :> EmptyStr))),
   RowOf(JsObject(<<"n","a","m","e">> :> JsNull)),
   RowOf(JsUndefined)}

SampleResults ==
  {JsUndefined, ResultOf(JsUndefined, JsUndefined)}
    \cup {ResultOf(TableObject(<<"s","t","u","d","e","n","t","s">>, names), rows) :
            names \in SampleColumnNames,
            rows \in {JsUndefined}
                       \cup {JsArray(r) : r \in SeqsUpTo(SampleShownRows, MaxShownRows)}}
    \cup {ResultOf([kind |-> "object", name |-> <<"t">>, columns |-> JsUndefined],
                   JsArray(<<>>))}

SampleDetails ==
  {JsUndefined,
   DetailsOf(Str(<<"s","t","u","d","e","n","t","s">>), JsUndefined,
             JsArray(<<[name |-> <<"i","d">>, type |-> <<"i","n","t","e","g","e","r">>],
                       [name |-> <<"e","m","a","i","l">>, type |-> <<"t","e","x","t">>]>>),
             JsUndefined, JsUndefined),
   DetailsOf(Str(<<"s","t","u","d","e","n","t","s">>), JsUndefined, JsUndefined, JsUndefined,
             JsUndefined),
   DetailsOf(JsUndefined, Str(<<"s","t","u","d","e","n","t","s">>), JsUndefined,
             JsArray(<<Str(<<"1">>), Str(<<"a","n","n">>)>>), JsUndefined),
   DetailsOf(JsUndefined, Str(<<"s","t","u","d","e","n","t","s">>), JsUndefined, JsUndefined,
             JsUndefined),
   DetailsOf(JsUndefined, JsUndefined, JsUndefined, JsUndefined,
             Str(<<"w","h","a","t"," ","n","o","w">>)),
   DetailsOf(JsUndefined, JsUndefined, JsUndefined, JsUndefined, EmptyStr)}

SampleActions ==
  {"show_table", "create_table", "delete_table", "insert_row", "update_row",
   "delete_row", "show_tables", "query", "conversation"}

\* the handler passes a result with show_table only
ResponseCalls ==
  {c \in [op : {"generateChatResponse"}, action : SampleActions,
          details : SampleDetails, result : SampleResults] :
     IF c.action = "show_table"
       THEN c.details \in {JsUndefined,
                           DetailsOf(JsUndefined, Str(<<"s","t","u","d","e","n","t","s">>), JsUndefined,
                                     JsUndefined, JsUndefined)}
       ELSE c.result \in {JsUndefined, ResultOf(JsUndefined, JsUndefined)}}

\* the calls made again after the first: the first call itself and two other
AgainCalls(first) ==
  {first,
   [first EXCEPT !.action = "query"],
   [first EXCEPT !.result = JsUndefined]}

MaxResponses == 3


(***************************************************************************)
(* The chat handler's calls of generateChatResponse (routes, line 538):    *)
(* a first call and calls made again.  env.log lists the calls returned so *)
(* far with their replies; env.store is the store of the handler.          *)
(***************************************************************************)
InitRespond ==
  /\ call \in ResponseCalls
  /\ env = [log |-> <<>>, store |-> SampleStore("FileStorage")]
  /\ pc = "called"
  /\ ret = <<>>

\* Respond with a reply that depends on the number of calls made before
RespondCounting ==
  /\ pc = "called"
  /\ call.op = "generateChatResponse"
  /\ ret' = IF Len(env.log) = 0
              THEN generateChatResponse(call.action, call.details, call.result)
              ELSE Returns(Str(NatToString(Len(env.log))))
  /\ pc' = "returned"
  /\ env' = [env EXCEPT !.log = Append(@, [call |-> call, ret |-> ret'])]
  /\ UNCHANGED call

\* the function assigns nothing but its locals
Respond ==
  /\ pc = "called"
  /\ call.op = "generateChatResponse"
  /\ ret' = generateChatResponse(call.action, call.details, call.result)
  /\ pc' = "returned"
  /\ env' = [env EXCEPT !.log = Append(@, [call |-> call, ret |-> ret'])]
  /\ UNCHANGED call

CallAgain ==
  /\ pc = "returned"
  /\ call.op = "generateChatResponse"
  /\ Len(env.log) < MaxResponses
  /\ call' \in AgainCalls(env.log[1].call)
  /\ pc' = "called"
  /\ UNCHANGED <<env, ret>>

NextRespond == Respond \/ CallAgain

SpecRespond == InitRespond /\ [][NextRespond]_vars

\* a show_table call with a found table has returned
TableShown ==
  /\ pc = "returned"
  /\ call.op = "generateChatResponse"
  /\ call.action = "show_table"
  /\ ~Falsy(call.result)
  /\ ~Falsy(call.result.table)

ShownColumns ==
  IF Falsy(call.result.table.columns) THEN <<>>
  ELSE call.result.table.columns.items

ShownRows == IF Falsy(call.result.rows) THEN <<>> ELSE call.result.rows.items

\* the texts a cell may have: empty when the row has no value of the name,
\* the string form of a value that is there
CellTexts(row, name) ==
  LET v == IF Falsy(row.data) THEN JsUndefined ELSE Member(row.data, name)
  IN IF v \in {JsUndefined, JsNull} THEN {<<>>}
     ELSE IF Falsy(v) THEN {<<>>, String(v)}
     ELSE {String(v)}

\* the lines a row may have: one cell per column, in column order
RowLines(row, cols) ==
  {Join(cells, <<" ","|"," ">>) :
     cells \in {c \in [DOMAIN cols ->
                         UNION {CellTexts(row, cols[k].name) : k \in DOMAIN cols}] :
                  \A k \in DOMAIN cols : c[k] \in CellTexts(row, cols[k].name)}}

\* C15: the reply to show_table with a found table is, line by line: the
\* title with the table's name, an empty line, the column names joined by
\* space bar space, one group of dashes per column joined by -+-, and then
\* one line per row in row order with one cell per column in column order
\* joined by space bar space, a missing cell empty, or (no rows) when there
\* is no row.
C15_ShowTableLayout ==
  TableShown =>
    LET lines == split(ret.value.chars, "\n")
        cols  == ShownColumns
        rows  == ShownRows
    IN /\ ~ret.threw
       /\ Len(lines) = 4 + (IF Len(rows) = 0 THEN 1 ELSE Len(rows))
       /\ lines[1] = <<Clipboard>> \o <<" ","T","A","B","L","E",":"," ">> \o call.result.table.name
       /\ lines[2] = <<>>
       /\ lines[3] = Join([k \in DOMAIN cols |-> cols[k].name], <<" ","|"," ">>)
       /\ lines[4] = Join([k \in DOMAIN cols |-> <<"-","-","-">>], <<"-","+","-">>)
       /\ IF Len(rows) = 0 THEN lines[5] = <<"(","n","o"," ","r","o","w","s",")">>
          ELSE \A r \in DOMAIN rows : lines[4 + r] \in RowLines(rows[r], cols)

C15_Witness ==
  /\ TableShown
  /\ Len(ShownColumns) = 2
  /\ Len(ShownRows) = 2
  /\ ShownRows[1] # ShownRows[2]
  /\ Len(split(ret.value.chars, "\n")) = 6


ObjectsIn(chars) ==
  {p \in (1..Len(chars)) \X (1..Len(chars)) :
     /\ p[1] < p[2]
     /\ chars[p[1]] = "{"
     /\ chars[p[2]] = "}"
     /\ ~JSONparse(SubSeq(chars, p[1], p[2])).threw}

\* the object that starts first
FirstObject(chars) ==
  CHOOSE p \in ObjectsIn(chars) :
    \A q \in ObjectsIn(chars) : p[1] < q[1] \/ (p[1] = q[1] /\ p[2] <= q[2])

\* the image extractor has read a reply of the oracle
ReplyRead ==
  /\ ExtractReturned
  /\ call.ext \in ImageExtensions
  /\ env.apiKey
  /\ ~ReplyOf(env.oracle).threw
  /\ ReplyOf(env.oracle).value.kind = "string"

\* C16: when the reply holds a JSON object, with any prose before and after
\* it, braces in the prose included, the tables of the result are those of
\* the first such object; when it holds none, the result has no tables.
C16_FirstBalancedObject ==
  ReplyRead =>
    LET chars == ReplyOf(env.oracle).value.chars
    IN IF ObjectsIn(chars) = {} THEN ret.value.tables = JsArray(<<>>)
       ELSE LET p == FirstObject(chars)
                tables == Member(JSONparse(SubSeq(chars, p[1], p[2])).value,
                                 <<"t","a","b","l","e","s">>)
            IN ret.value.tables
                 = IF Falsy(tables) THEN JsArray(<<>>) ELSE tables


\* a normalized name: lower-case letters, digits and underscores only
IsNormalized(name) ==
  \A k \in DOMAIN name : name[k] \in LowerLetters \cup Digits \cup {"_"}

\* C17: every column name of a create_table action and of a table of the
\* spreadsheet, CSV and text extractors is normalized: in lower case, with
\* an underscore for each run of white space and without any character
\* that is no letter, digit or underscore.
C17_NormalizedColumnNames ==
  /\ TablesReturned =>
       \A n \in DOMAIN TablesOf(ret) :
         \A k \in DOMAIN TablesOf(ret)[n].columns :
           IsNormalized(NameOf(TablesOf(ret)[n].columns[k]))
  /\ (Interpreted /\ ret.action = "create_table") =>
       \A k \in DOMAIN ret.details.columns :
         IsNormalized(ret.details.columns[k].name)


\* The type the ordered keyword rule gives a lower-cased column name:
\* email first, then id, then age / count / number / phone, otherwise text.
RuleType(name) ==
  IF includes(name, w_email) THEN "text"
  ELSE IF includes(name, w_id) THEN "integer"
  ELSE IF \E w \in {w_age, w_count, w_number, w_phone} : includes(name, w)
    THEN "integer"
  ELSE "text"

\* The comma-separated pieces of the whole utterance, trimmed and lower-cased.
\* The first piece still carries "create table T with" and the last one may
\* carry the "in database D" clause; the pieces between them are column
\* tokens and nothing else.
Pieces(userMessage) ==
  [k \in 1..Len(split(userMessage, ",")) |->
     toLowerCase(trim(split(userMessage, ",")[k]))]

Fits(name, pieces, j) ==
  IF 1 < j /\ j < Len(pieces)
    THEN name = pieces[j]
    ELSE includes(pieces[j], name)

\* names[k..] are found in pieces[j..] in the same order, each at a later
\* piece than the one before
RECURSIVE InOrder(_, _, _, _)
InOrder(names, pieces, k, j) ==
  IF k > Len(names) THEN TRUE
  ELSE IF j > Len(pieces) THEN FALSE
  ELSE IF Fits(names[k], pieces, j)
    THEN InOrder(names, pieces, k + 1, j + 1)
    ELSE InOrder(names, pieces, k, j + 1)

\* C18: in every create_table action each column is a comma-separated token
\* of the utterance in lower case, typed by the ordered rule (email -> text,
\* else id -> integer, else age / count / number / phone -> integer, else
\* text), and the columns stand in the order of their tokens.
C18_ColumnTyping ==
  (Interpreted /\ ret.action = "create_table") =>
    LET columns == ret.details.columns
    IN /\ \A k \in DOMAIN columns :
            /\ columns[k].name = toLowerCase(columns[k].name)
            /\ ~ includes(columns[k].name, <<",">>)
            /\ columns[k].type = RuleType(columns[k].name)
       /\ InOrder(ColumnNames(columns), Pieces(call.userMessage), 1, 1)

\* a create_table action whose columns meet every arm of the rule, the
\* first of them holding both "email" and "id"
C18_Witness ==
  /\ Interpreted
  /\ ret.action = "create_table"
  /\ Len(ret.details.columns) = 5
  /\ ret.details.columns[1] = [name |-> <<"e","m","a","i","l","_","i","d">>, type |-> "text"]
  /\ ret.details.columns[2] = [name |-> <<"p","a","i","d">>, type |-> "integer"]
  /\ ret.details.columns[3] = [name |-> <<"p","h","o","n","e">>, type |-> "integer"]
  /\ ret.details.columns[5] = [name |-> <<"n","a","m","e">>, type |-> "text"]


\* the six maps of a store as JSON.stringify writes them
Contents(e) == [n \in MapNames |-> MapJson(e[n])]

\* C20: FileStorage data persists across restarts: after every completed
\* call the JSON files hold exactly the six maps, and constructing a new
\* FileStorage yields the same sessions, messages, databases, tables, rows
\* and documents, with the same ids in the same order and the same contents
\* (a Date read back as the ISO string that was written for it).
C20_PersistsAcrossRestarts ==
  /\ [](env.kind = "FileStorage" => env.files = Contents(env))
  /\ [][call'.op = "constructor" =>
          /\ Contents(env') = Contents(env)
          /\ \A n \in MapNames : IdsOf(env'[n]) = IdsOf(env[n])
          /\ env'.files = env.files]_vars

\* a FileStorage constructed again after two calls, one of which inserted a
\* second row: both rows are in the new object, read from the file
C20_Witness ==
  /\ env.kind = "FileStorage"
  /\ call.op = "constructor"
  /\ env.now = MaxCalls
  /\ Len(env.rows) = 2
  /\ \A k \in DOMAIN env.rows : env.rows[k].createdAt.kind = "string"
  /\ env.rows = env.files["rows"]


\* "show all T", T one word, with a final full stop or without one
ShowAllForm ==
  <<Bol, Lit(w_show), Sp1, Lit(w_all), Sp1, Cap(1, <<Word1>>),
    Opt(<<Lit(<<".">>)>>), Eol>>

\* C21: every utterance "show all T" for a table name T, the README's
\* "Show all students." among them, returns show_table with tableName T.
C21_ShowAllIsQueryOfTable ==
  Interpreted =>
    LET f == match(call.userMessage, ShowAllForm)
    IN f.ok => ret = [action |-> "show_table",
                      details |-> [tableName |-> Group(call.userMessage, f, 1)]]

\* the README example of creating a table
CreateExample == <<"C","r","e","a","t","e"," ","a"," ","t","a","b","l","e"," ","n","a","m","e","d"," ","s","t","u","d","e","n","t","s"," ","w","i","t","h"," ","c","o","l","u","m","n","s"," ","i","d",","," ","n","a","m","e",","," ","a","n","d"," ","e","m","a","i","l",".">>

\* C22: the README example "Create a table named students with columns id,
\* name, and email." returns create_table with the name students and the
\* three columns id, name and email.
C22_ReadmeCreateExample ==
  (Interpreted /\ call.userMessage = CreateExample) =>
    /\ ret.action = "create_table"
    /\ ret.details.name = <<"s","t","u","d","e","n","t","s">>
    /\ ColumnNames(ret.details.columns) = <<<<"i","d">>, <<"n","a","m","e">>, <<"e","m","a","i","l">>>>


\* C24: an utterance that contains "insert" and that the insert pattern
\* does not match returns no insert_row action but the final default, the
\* query action with the utterance as its message.
C24_FailedInsertIsDefault ==
  Interpreted =>
    ((includes(trim(toLowerCase(call.userMessage)), w_insert)
        /\ ~match(call.userMessage, insertRe).ok)
       => ret = [action |-> "query", details |-> [message |-> call.userMessage]])


\* the runs of the lines: the blocks of 2 or more row candidates
Runs(lines) == {b \in Blocks(lines) : b[2] > b[1]}

\* the k-th run in the order of the text
RunAt(lines, k) ==
  CHOOSE b \in Runs(lines) :
    Cardinality({a \in Runs(lines) : a[1] <= b[1]}) = k

\* C23: every table extractTablesFromText returns is built from exactly one
\* maximal run of 2 or more consecutive row-candidate lines of the text, no
\* line of prose and no blank line lying between its header line and its
\* data lines: the k-th run gives the k-th table, named pdf_table_k, with
\* the first line of the run as headers and the other lines as rows, and a
\* single candidate line gives no table.
C23_TablesAreRuns ==
  (pc = "returned" /\ call.op = "extractTablesFromText") =>
    /\ Len(TablesOf(ret)) = Cardinality(Runs(call.lines))
    /\ \A k \in DOMAIN TablesOf(ret) :
         k <= Cardinality(Runs(call.lines)) =>
           LET t == TablesOf(ret)[k]
               b == RunAt(call.lines, k)
           IN /\ t.name = <<"p","d","f","_","t","a","b","l","e","_">> \o NatToString(k)
              /\ Len(t.columns) = Len(CellsOf(trim(call.lines[b[1]])))
              /\ Len(t.rows) = b[2] - b[1]


(***************************************************************************)
(* POST /api/chat/message (routes, lines 327-571) under the event loop.    *)
(* A handler runs until its next await; what follows the await is a job    *)
(* of the promise job queue.  The handlers of the requests that one        *)
(* callback of the connection has parsed all start before the first job    *)
(* runs; the jobs run first in, first out.  call, pc and ret hold one      *)
(* entry per request.  The broadcasts change nothing here.                 *)
(***************************************************************************)
MaxRequests == 2

Requests == 1..MaxRequests

\* a greeting, a listing of the tables and a sentence no branch knows
ChatContents == {<<"h","e","l","l","o">>, <<"s","h","o","w"," ","a","l","l"," ","t","a","b","l","e","s">>, <<"T","e","l","l"," ","m","e"," ","a"," ","j","o","k","e">>}

\* sessionId is optional in insertChatMessageSchema
ChatBodies ==
  [sessionId : {"id1", "undefined"}, content : ChatContents, role : {"user"}]

\* file-storage.ts lines 213-235, as a function of the store
addChatMessage(e, message) ==
  LET chatMessage == [id |-> Uuids[e.uuids + 1],
                      sessionId |-> OrNull(message.sessionId),
                      content |-> message.content, role |-> message.role,
                      createdAt |-> DateAt(e.now)]
      added == Saved([e EXCEPT !.messages = Set(@, chatMessage),
                               !.uuids = @ + 1], {"messages"})
  IN [value |-> chatMessage,
      store |->
        IF OrNull(message.sessionId) # "null"
             /\ Has(e.sessions, message.sessionId)
          THEN Saved([added EXCEPT
                        !.sessions =
                           Set(@, [Get(e.sessions, message.sessionId) EXCEPT
                                     !.updatedAt = DateAt(e.now)])],
                     {"sessions"})
          ELSE added]

\* Array.prototype.sort by createdAt, which is stable: a message goes
\* behind the sorted messages that are not later than it
RECURSIVE SortedByCreation(_)
SortedByCreation(messages) ==
  IF Len(messages) = 0 THEN <<>>
  ELSE LET init == SortedByCreation(SubSeq(messages, 1, Len(messages) - 1))
           m    == messages[Len(messages)]
           keep == Cardinality({k \in DOMAIN init :
                                  init[k].createdAt.time <= m.createdAt.time})
       IN SubSeq(init, 1, keep) \o <<m>> \o SubSeq(init, keep + 1, Len(init))

\* file-storage.ts lines 236-245
getChatHistory(e, sessionId) ==
  SortedByCreation(
    IF sessionId \in {"undefined", "null", ""} THEN e.messages
    ELSE SelectSeq(e.messages, LAMBDA m : m.sessionId = sessionId))

Bullet == "bullet"

\* routes lines 545-551: the reply of show_tables
ShowTablesReply(tables) ==
  IF Len(tables) = 0
    THEN <<BarChart>> \o <<" ","N","o"," ","t","a","b","l","e","s"," ","f","o","u","n","d","."," ","C","r","e","a","t","e"," ","o","n","e"," ","b","y"," ","s","a","y","i","n","g"," ","'","c","r","e","a","t","e"," ","a"," ","t","a","b","l","e"," ","s","t","u","d","e","n","t"," ","w","i","t","h"," ","i","d",","," ","n","a","m","e",","," ","e","m","a","i","l","'">>
    ELSE <<BarChart>> \o <<" ","F","o","u","n","d"," ">> \o NatToString(Len(tables)) \o <<" ","t","a","b","l","e","(","s",")",":">>
           \o Join([k \in DOMAIN tables |->
                      <<"\n", Bullet, " ", tables[k].name, " ", "(">>
                        \o NatToString(Len(tables[k].columns)) \o <<" ","c","o","l","u","m","n","s",")">>],
                   <<>>)

\* routes lines 552-556: the reply of conversation and of the other actions
\* that need no call of the store
PlainReply(interpreted) ==
  IF interpreted.action = "conversation"
    THEN interpreted.details.response
    ELSE String(generateChatResponse(
                  interpreted.action,
                  DetailsOf(JsUndefined, JsUndefined, JsUndefined, JsUndefined,
                            Str(interpreted.details.message)),
                  JsUndefined).value)

InitChat ==
  /\ call \in [Requests -> ChatBodies]
  /\ env \in [store : {SampleStore("FileStorage"), EmptyStore("FileStorage")},
              jobs : {<<>>}, phase : {"idle"},
              user : {[r \in Requests |-> "none"]},
              reply : {[r \in Requests |-> "none"]},
              interpreted : {[r \in Requests |-> Falls]}]
  /\ pc = [r \in Requests |-> "arriving"]
  /\ ret = [r \in Requests |-> <<>>]

\* the job of request r is the next to run
NextJob(r) == Len(env.jobs) > 0 /\ Head(env.jobs) = r

\* the handler of r stops at an await: its job goes to the end of the queue
Awaiting(r, first) ==
  IF first THEN Append(env.jobs, r) ELSE Append(Tail(env.jobs), r)

\* lines 558-563: the assistant message is stored
Replied(r, text) ==
  LET added == addChatMessage(env.store,
                              [sessionId |-> call[r].sessionId,
                               content |-> text, role |-> "assistant"])
  IN /\ env' = [env EXCEPT !.store = added.store,
                           !.reply[r] = added.value.id,
                           !.jobs = Awaiting(r, FALSE), !.phase = "jobs"]
     /\ pc' = [pc EXCEPT ![r] = "replied"]
     /\ UNCHANGED <<call, ret>>

\* lines 328-332: the body is validated and the user message stored.  The
\* handler starts in a callback of the connection: when no job waits, or
\* in the callback that started the handlers before it.
Start(r) ==
  /\ pc[r] = "arriving"
  /\ env.jobs = <<>> \/ env.phase = "callbacks"
  /\ \E dt \in 0..1 :
       LET added == addChatMessage([env.store EXCEPT !.now = @ + dt], call[r])
       IN env' = [env EXCEPT !.store = added.store,
                             !.user[r] = added.value.id,
                             !.jobs = Awaiting(r, TRUE),
                             !.phase = "callbacks"]
  /\ pc' = [pc EXCEPT ![r] = "saved"]
  /\ UNCHANGED <<call, ret>>

\* lines 333-336: the interpreter is called
AfterSave(r) ==
  /\ pc[r] = "saved"
  /\ NextJob(r)
  /\ env' = [env EXCEPT
               !.interpreted[r] = processNaturalLanguageCommand(call[r].content),
               !.jobs = Awaiting(r, FALSE), !.phase = "jobs"]
  /\ pc' = [pc EXCEPT ![r] = "interpreted"]
  /\ UNCHANGED <<call, ret>>

\* lines 337-563: show_tables awaits getTables; conversation and the default
\* go on to store the reply
AfterInterpret(r) ==
  /\ pc[r] = "interpreted"
  /\ NextJob(r)
  /\ IF env.interpreted[r].action = "show_tables"
       THEN /\ env' = [env EXCEPT !.jobs = Awaiting(r, FALSE), !.phase = "jobs"]
            /\ pc' = [pc EXCEPT ![r] = "tables"]
            /\ UNCHANGED <<call, ret>>
       ELSE Replied(r, PlainReply(env.interpreted[r]))

\* lines 546-563
AfterTables(r) ==
  /\ pc[r] = "tables"
  /\ NextJob(r)
  /\ Replied(r, ShowTablesReply(env.store.tables))

\* lines 564-566: res.json([userMessage, aiMessage])
SendJson(r) ==
  /\ pc[r] = "replied"
  /\ NextJob(r)
  /\ ret' = [ret EXCEPT ![r] = <<env.user[r], env.reply[r]>>]
  /\ env' = [env EXCEPT !.jobs = Tail(env.jobs), !.phase = "jobs"]
  /\ pc' = [pc EXCEPT ![r] = "done"]
  /\ UNCHANGED call

NextChat ==
  \E r \in Requests :
    \/ Start(r)
    \/ AfterSave(r)
    \/ AfterInterpret(r)
    \/ AfterTables(r)
    \/ SendJson(r)

SpecChat == InitChat /\ [][NextChat]_vars

\* the place of message id in a history, 0 when it is not there
PlaceIn(history, id) ==
  IF \E k \in DOMAIN history : history[k].id = id
    THEN CHOOSE k \in DOMAIN history : history[k].id = id
    ELSE 0

\* C25: in the stored history of every session, ordered by creation, the
\* user message of a request is immediately followed by the assistant reply
\* made for it, whatever the interleaving of the requests: no message of
\* another request stands between the two, and while the reply is still to
\* come nothing stands behind the user message.
C25_HistoryAlternates ==
  \A r \in Requests :
    (env.user[r] # "none" /\ OrNull(call[r].sessionId) # "null") =>
      LET history == getChatHistory(env.store, call[r].sessionId)
          place   == PlaceIn(history, env.user[r])
      IN /\ place > 0
         /\ history[place].role = "user"
         /\ IF env.reply[r] = "none" THEN place = Len(history)
            ELSE /\ PlaceIn(history, env.reply[r]) = place + 1
                 /\ history[place + 1].role = "assistant"


\* the maps of the store that the step of a call left as they were
Kept(names) == \A n \in names : env'[n] = env[n]

\* C26: deleteDatabase(id) removes the database, the tables whose databaseId
\* is id and the rows of those tables, and nothing else; deleteTable(id)
\* removes the table and exactly the rows whose tableId is id;
\* deleteChatSession(id) removes the session and exactly its messages.
\* After each of them no row that is left refers to a removed table and no
\* message to the removed session.
C26_DeletionCascade ==
  [][/\ call'.op = "deleteDatabase" =>
          LET gone == {env.tables[k].id :
                         k \in {j \in DOMAIN env.tables :
                                  env.tables[j].databaseId = call'.id}}
          IN /\ env'.databases
                  = SelectSeq(env.databases, LAMBDA d : d.id # call'.id)
             /\ env'.tables
                  = SelectSeq(env.tables, LAMBDA t : t.databaseId # call'.id)
             /\ env'.rows = SelectSeq(env.rows, LAMBDA r : r.tableId \notin gone)
             /\ \A k \in DOMAIN env'.rows : env'.rows[k].tableId \notin gone
             /\ Kept({"sessions", "messages", "documents"})
     /\ call'.op = "deleteTable" =>
          /\ env'.tables = SelectSeq(env.tables, LAMBDA t : t.id # call'.id)
          /\ env'.rows = SelectSeq(env.rows, LAMBDA r : r.tableId # call'.id)
          /\ \A k \in DOMAIN env'.rows : env'.rows[k].tableId # call'.id
          /\ Kept({"sessions", "messages", "databases", "documents"})
     /\ call'.op = "deleteChatSession" =>
          /\ env'.sessions = SelectSeq(env.sessions, LAMBDA c : c.id # call'.id)
          /\ env'.messages
               = SelectSeq(env.messages, LAMBDA m : m.sessionId # call'.id)
          /\ \A k \in DOMAIN env'.messages : env'.messages[k].sessionId # call'.id
          /\ Kept({"databases", "tables", "rows", "documents"})]_vars

\* deleteDatabase of the one database that holds a table with a row, after
\* a second table was made outside it: the table and its row are gone, the
\* other table is left
C26_Witness ==
  /\ call.op = "deleteDatabase"
  /\ call.id = "id3"
  /\ env.databases = <<>>
  /\ env.rows = <<>>
  /\ Len(env.tables) = 1
  /\ env.tables[1].databaseId = "null"
  /\ Len(env.messages) = 1


\* the calls that create databases and tables
NextNames == CreateDatabase \/ GetOrCreateDefaultDatabase \/ CreateTable

SpecNames == InitStore /\ [][NextNames]_vars

\* C27: in every state FileStorage reaches by createDatabase and createTable
\* calls, a databaseId left out or null included, no two databases have
\* names equal ignoring case and no two tables of the same databaseId have
\* names equal ignoring case.
C27_NamesUnique ==
  env.kind = "FileStorage" =>
    /\ \A i, j \in DOMAIN env.databases :
         LowerName(env.databases[i].name) = LowerName(env.databases[j].name)
           => i = j
    /\ \A i, j \in DOMAIN env.tables :
         (/\ env.tables[i].databaseId = env.tables[j].databaseId
          /\ LowerName(env.tables[i].name) = LowerName(env.tables[j].name))
           => i = j


(***************************************************************************)
(* POST /api/upload (routes, lines 726-791).  The calls of the store are   *)
(* functions of the store here: each gives the store after the call and    *)
(* the value returned, or threw.                                           *)
(***************************************************************************)
MaxUploads == 2

\* file-storage.ts lines 203-211
getOrCreateDefaultDatabase(e) ==
  LET found == SelectSeq(e.databases, LAMBDA d : LowerName(d.name) = "default")
      db == [id |-> Uuids[e.uuids + 1], name |-> "default",
             description |-> "Default database for tables",
             createdAt |-> DateAt(e.now)]
  IN IF Len(found) > 0 THEN [store |-> e, value |-> found[1]]
     ELSE [store |-> Saved([e EXCEPT !.databases = Set(@, db), !.uuids = @ + 1],
                           {"databases"}),
           value |-> db]

\* file-storage.ts lines 270-278, called with the id of a database
getTableByName(e, name, databaseId) ==
  LET found == SelectSeq(e.tables,
                         LAMBDA t : /\ LowerName(t.name) = LowerName(name)
                                    /\ t.databaseId = databaseId)
  IN IF Len(found) > 0 THEN found[1] ELSE JsUndefined

\* file-storage.ts lines 247-268
createTable(e, table) ==
  LET dbTable == [id |-> Uuids[e.uuids + 1],
                  databaseId |-> OrNull(table.databaseId), name |-> table.name,
                  columns |-> table.columns, positions |-> "{}",
                  createdAt |-> DateAt(e.now)]
  IN IF \E k \in DOMAIN e.tables :
          /\ LowerName(e.tables[k].name) = LowerName(table.name)
          /\ e.tables[k].databaseId = table.databaseId
       THEN [threw |-> TRUE, store |-> e, value |-> "undefined"]
       ELSE [threw |-> FALSE,
             store |-> Saved([e EXCEPT !.tables = Set(@, dbTable),
                                       !.uuids = @ + 1], {"tables"}),
             value |-> dbTable]

\* file-storage.ts lines 349-373
insertRow(e, row) ==
  LET key == IF Has(e.tables, row.tableId)
               THEN PrimaryKeyOf(Get(e.tables, row.tableId))
               ELSE "undefined"
      tableRow == [id |-> Uuids[e.uuids + 1], tableId |-> row.tableId,
                   data |-> row.data, createdAt |-> DateAt(e.now)]
  IN IF /\ key # "undefined"
        /\ \E r \in DOMAIN RowsOf(e, row.tableId) :
             DataAt(RowsOf(e, row.tableId)[r].data, key) = DataAt(row.data, key)
       THEN [threw |-> TRUE, store |-> e, value |-> "undefined"]
       ELSE [threw |-> FALSE,
             store |-> Saved([e EXCEPT !.rows = Set(@, tableRow),
                                       !.uuids = @ + 1], {"rows"}),
             value |-> tableRow]

\* file-storage.ts lines 398-410
uploadDocument(e, filename) ==
  LET document == [id |-> Uuids[e.uuids + 1], filename |-> filename,
                   content |-> "", extractedTables |-> "[]",
                   createdAt |-> DateAt(e.now)]
  IN Saved([e EXCEPT !.documents = Set(@, document), !.uuids = @ + 1],
           {"documents"})

\* `imported_${Date.now()}`
ImportedNames == <<"imported_0", "imported_1", "imported_2", "imported_3",
                   "imported_4">>
ImportedName(now) == ImportedNames[now + 1]

TextColumn(name) == [name |-> name, type |-> "text", isPrimaryKey |-> FALSE]

\* what extractDataFromFile makes of the files: the table of a CSV file, the
\* sheets of a workbook, the two tables of a PDF text, a table without a
\* name from the reply about an image, and no table at all
UploadFiles == {"a.csv", "b.xlsx", "c.pdf", "d.png", "e.txt"}

ExtractedTables(file) ==
  CASE file = "a.csv" ->
         <<[name |-> "imported_csv", columns |-> <<TextColumn("name")>>,
            rows |-> <<[name |-> "ann"], [name |-> "bob"]>>]>>
    [] file = "b.xlsx" ->
         <<[name |-> "students", columns |-> <<TextColumn("name")>>,
            rows |-> <<[name |-> "cid"]>>]>>
    [] file = "c.pdf" ->
         <<[name |-> "pdf_table_1", columns |-> <<TextColumn("name")>>,
            rows |-> <<[name |-> "ann"]>>],
           [name |-> "pdf_table_2", columns |-> <<TextColumn("id")>>,
            rows |-> <<>>]>>
    [] file = "d.png" ->
         <<[name |-> "undefined", columns |-> <<TextColumn("name")>>,
            rows |-> <<[name |-> "ann"]>>]>>
    [] OTHER -> <<>>

\* lines 754-759: the rows of a table are inserted one by one
RECURSIVE InsertedRows(_, _, _)
InsertedRows(e, tableId, rows) ==
  IF Len(rows) = 0 THEN [threw |-> FALSE, store |-> e]
  ELSE LET one == insertRow(e, [tableId |-> tableId, data |-> Head(rows)])
       IN IF one.threw THEN [threw |-> TRUE, store |-> e]
          ELSE InsertedRows(one.store, tableId, Tail(rows))

\* lines 741-763: the loop over the extracted tables
RECURSIVE ImportedTables(_, _, _, _)
ImportedTables(e, databaseId, tables, created) ==
  IF Len(tables) = 0 THEN [threw |-> FALSE, store |-> e, created |-> created]
  ELSE
    LET tableData == Head(tables)
        tableName == IF OrNull(tableData.name) = "null"
                       THEN ImportedName(e.now) ELSE tableData.name
    IN IF getTableByName(e, tableName, databaseId) # JsUndefined
         THEN ImportedTables(e, databaseId, Tail(tables), created)
       ELSE
         LET table == createTable(e, [databaseId |-> databaseId,
                                      name |-> tableName,
                                      columns |-> tableData.columns])
         IN IF table.threw
              THEN [threw |-> TRUE, store |-> e, created |-> created]
            ELSE
              LET filled == InsertedRows(table.store, table.value.id,
                                         tableData.rows)
              IN IF filled.threw
                   THEN [threw |-> TRUE, store |-> filled.store,
                         created |-> created]
                 ELSE ImportedTables(filled.store, databaseId, Tail(tables),
                                     created + 1)

InitUpload ==
  /\ call = [op |-> "constructor"]
  /\ env \in [store : {SampleStore("FileStorage"), EmptyStore("FileStorage")},
              log : {<<>>}]
  /\ pc = "returned"
  /\ ret = Returns("undefined")

\* lines 726-791: the handler of one upload; the clock may have moved on
\* since the upload before
Upload ==
  /\ Len(env.log) < MaxUploads
  /\ \E file \in UploadFiles, dt \in 0..1 :
       LET e      == [env.store EXCEPT !.now = @ + dt]
           tables == ExtractedTables(file)
           db     == getOrCreateDefaultDatabase(e)
           done   == ImportedTables(db.store, db.value.id, tables, 0)
           after  == IF Len(tables) = 0 THEN e
                     ELSE IF done.threw THEN done.store
                     ELSE uploadDocument(done.store, file)
       IN /\ call' = [op |-> "upload", file |-> file]
          /\ env' = [store |-> after,
                     log |-> Append(env.log,
                                    [file |-> file, tables |-> after.tables,
                                     rows |-> after.rows])]
          /\ ret' = IF Len(tables) = 0 THEN Returns([success |-> FALSE])
                    ELSE IF done.threw THEN ThrowsError("Upload failed")
                    ELSE Returns([success |-> TRUE,
                                  tablesCreated |-> done.created])
  /\ UNCHANGED pc

NextUpload == Upload

SpecUpload == InitUpload /\ [][NextUpload]_vars

\* C28: uploading the same file twice in a row leaves the tables and the
\* rows after the second upload as they were after the first: the second
\* upload finds every table of the file by its name and creates nothing.
C28_UploadIdempotent ==
  \A i \in 1..(Len(env.log) - 1) :
    env.log[i].file = env.log[i + 1].file =>
      /\ env.log[i + 1].tables = env.log[i].tables
      /\ env.log[i + 1].rows = env.log[i].rows


\* the text of a cell when every value a row holds is shown: empty for a
\* value that is absent, null or the empty string, the string form otherwise
ValueText(row, name) ==
  LET v == IF Falsy(row.data) THEN JsUndefined ELSE Member(row.data, name)
  IN IF v \in {JsUndefined, JsNull, EmptyStr} THEN <<>> ELSE String(v)

\* C29: in the reply to show_table every cell for which the row holds a
\* value, the number 0 and the boolean false included, is the string form
\* of that value; only a cell whose value is absent, null or the empty
\* string is empty.
C29_EveryValueRendered ==
  TableShown =>
    \A r \in DOMAIN ShownRows :
      split(ret.value.chars, "\n")[4 + r]
        = Join([k \in DOMAIN ShownColumns |->
                  ValueText(ShownRows[r], ShownColumns[k].name)],
               <<" ","|"," ">>)


(***************************************************************************)
(* The chat view's parseTableContent (client, part_003 lines 25-48)        *)
(***************************************************************************)
TableMarker == <<Clipboard>> \o <<" ","T","A","B","L","E",":">>

\* String.prototype.replace of the first occurrence of a text
replaceFirst(s, sub, by) ==
  IF ~includes(s, sub) THEN s
  ELSE LET i == CHOOSE i \in 1..(Len(s) - Len(sub) + 1) :
                  /\ SubSeq(s, i, i + Len(sub) - 1) = sub
                  /\ \A j \in 1..(i - 1) : SubSeq(s, j, j + Len(sub) - 1) # sub
       IN SubSeq(s, 1, i - 1) \o by \o SubSeq(s, i + Len(sub), Len(s))

\* lines 25-48; positions count from 1 here
parseTableContent(content) ==
  IF ~includes(content, TableMarker) THEN JsNull
  ELSE
    LET lines     == split(content, "\n")
        titleIdx  == CHOOSE k \in DOMAIN lines :
                       /\ includes(lines[k], TableMarker)
                       /\ \A j \in 1..(k - 1) : ~includes(lines[j], TableMarker)
        title     == trim(replaceFirst(lines[titleIdx], TableMarker, <<>>))
        headerIdx == titleIdx + 2
        dataStartIdx == headerIdx + 2
    IN IF headerIdx > Len(lines) THEN JsNull
       ELSE
         LET headers == Map(split(lines[headerIdx], "|"), trim)
         IN IF dataStartIdx > Len(lines)
              THEN [kind |-> "object", title |-> title, headers |-> headers,
                    rows |-> <<>>]
              ELSE [kind |-> "object", title |-> title, headers |-> headers,
                    rows |->
                      Map(SelectSeq(SubSeq(lines, dataStartIdx, Len(lines)),
                                    LAMBDA line :
                                      /\ trim(line) # <<>>
                                      /\ ~includes(line, <<"-","-","-">>)),
                          LAMBDA line : Map(split(line, "|"), trim))]

\* C30: parseTableContent applied to the reply of show_table gives back the
\* name of the table as title, the column names in order as headers and one
\* row per row of the table with the cells as they were rendered, in order;
\* for a table without rows it gives an empty list of rows.
C30_RoundTrip ==
  (TableShown /\ ~ret.threw) =>
    parseTableContent(ret.value.chars)
      = [kind |-> "object",
         title |-> call.result.table.name,
         headers |-> [k \in DOMAIN ShownColumns |-> ShownColumns[k].name],
         rows |-> [r \in DOMAIN ShownRows |->
                     [k \in DOMAIN ShownColumns |->
                        CellText(ShownRows[r], ShownColumns[k].name)]]]

====
